---- MODULE Spec2Model ----
(***************************************************************************)
(* Header reconciliation, value coercion and validation of the Data        *)
(* Alchemist application (fileParser.ts, validator.ts, page.tsx).          *)
(*                                                                         *)
(* Representation.  A JavaScript string is a sequence of one-character     *)
(* strings, so that normalisation, substring tests, splitting and parsing  *)
(* are computed character by character as the code computes them.          *)
(* A score of calculateSimilarity is an exact fraction <<num, den>>.       *)
(***************************************************************************)
EXTENDS Integers, Sequences, FiniteSets, TLC

VARIABLES
  mhHeaders,     \* mapHeaders: the incoming header list
  mhType,        \* mapHeaders: the entity kind
  mhResult,      \* mapHeaders: [returned, mapping]
  simPair,       \* calculateSimilarity: the two strings
  simScore,      \* calculateSimilarity: [returned, score]
  pfFile,        \* processFile: the decoded file
  pfType,        \* processFile: the entity kind
  pfResult,      \* processFile: [returned, result]
  validator,     \* dataValidator: the shared DataValidator instance
  vCalls,        \* validate: the arguments of the calls made so far
  vResults,      \* validate: the results returned so far
  activeTab,     \* Home: the tab shown
  fileData,      \* Home: the three collections
  validationResults, \* Home: the stored result of each kind
  uploadedFiles, \* Home: whether a file is recorded for each kind
  isProcessing,  \* FileUpload (one per kind): a run is in progress
  uploadError,   \* FileUpload (one per kind): the error message, "" for null
  inFlight,      \* the handleFileUpload runs that have not finished
  events,        \* the number of user events so far
  gData,         \* DataGrid: the data prop
  searchTerm,    \* DataGrid: the text of the search box
  sortConfig,    \* DataGrid: <<>> for null, or <<[key, direction]>>
  editingCell,   \* DataGrid: <<>> for null, or <<[row, column]>>
  editValue,     \* DataGrid: the text of the cell editor
  gLast,         \* DataGrid: the handler that ran last, with its arguments
  gEvents,       \* DataGrid: the number of user events so far
  exData,        \* ExportPanel: the data prop
  exRules,       \* ExportPanel: the businessRules prop
  exportConfig,  \* ExportPanel: the export options
  isExporting,   \* ExportPanel: an export is running
  exportStatus,  \* ExportPanel: the status line, "" for null
  downloads      \* ExportPanel: the files handed to downloadFile so far

mhVars == <<mhHeaders, mhType, mhResult, simPair, simScore>>
pfVars == <<pfFile, pfType, pfResult>>
valVars == <<validator, vCalls, vResults>>
pageVars == <<activeTab, fileData, validationResults, uploadedFiles,
              isProcessing, uploadError, inFlight, events>>
gridVars == <<gData, searchTerm, sortConfig, editingCell, editValue, gLast,
              gEvents>>
exportVars == <<exData, exRules, exportConfig, isExporting, exportStatus,
                downloads>>
vars == <<mhHeaders, mhType, mhResult, simPair, simScore, pfFile, pfType, pfResult,
          validator, vCalls, vResults,
          activeTab, fileData, validationResults, uploadedFiles,
          isProcessing, uploadError, inFlight, events,
          gData, searchTerm, sortConfig, editingCell, editValue, gLast,
          gEvents,
          exData, exRules, exportConfig, isExporting, exportStatus,
          downloads>>

(***************************************************************************)
(* Bounds of the model                                                     *)
(***************************************************************************)
MaxHeaders == 2

MaxFileHeaders == 2

MaxFileRows == 1

MaxRows == 3

MaxCalls == 3

MaxEvents == 3

\* the longest string handed to calculateSimilarity
MaxSimLen == 3

\* the user events on the grid
MaxGridEvents == 4

\* the files an export panel hands to the browser
MaxDownloads == 3

\* the state of a call that has not returned yet
NotCalled == [returned |-> FALSE, mapping |-> <<>>]

(***************************************************************************)
(* Generic helpers                                                         *)
(***************************************************************************)
Range(s) == {s[i] : i \in 1..Len(s)}

InSeq(s, x) == \E i \in 1..Len(s) : s[i] = x

Min2(a, b) == IF a <= b THEN a ELSE b

Max2(a, b) == IF a >= b THEN a ELSE b

\* TLC evaluates an operator argument when it is first used, possibly deep
\* inside a nested evaluation.  Strict(v, e) equals e and evaluates v first,
\* which keeps the loops below iterative.
Strict(v, e) == IF v = v THEN e ELSE e

\* Sequences over S of length at most n
SeqsUpTo(S, n) == UNION {[1..k -> S] : k \in 0..n}

(***************************************************************************)
(* Canonical field names (src/src/utils/fileParser.ts, HEADER_MAPPINGS)    *)
(***************************************************************************)
ClientID == <<"C", "l", "i", "e", "n", "t", "I", "D">>
ClientName == <<"C", "l", "i", "e", "n", "t", "N", "a", "m", "e">>
PriorityLevel == <<"P", "r", "i", "o", "r", "i", "t", "y", "L", "e", "v", "e", "l">>
RequestedTaskIDs == <<"R", "e", "q", "u", "e", "s", "t", "e", "d", "T", "a", "s", "k", "I", "D", "s">>
GroupTag == <<"G", "r", "o", "u", "p", "T", "a", "g">>
AttributesJSON == <<"A", "t", "t", "r", "i", "b", "u", "t", "e", "s", "J", "S", "O", "N">>
WorkerID == <<"W", "o", "r", "k", "e", "r", "I", "D">>
WorkerName == <<"W", "o", "r", "k", "e", "r", "N", "a", "m", "e">>
Skills == <<"S", "k", "i", "l", "l", "s">>
AvailableSlots == <<"A", "v", "a", "i", "l", "a", "b", "l", "e", "S", "l", "o", "t", "s">>
MaxLoadPerPhase == <<"M", "a", "x", "L", "o", "a", "d", "P", "e", "r", "P", "h", "a", "s", "e">>
WorkerGroup == <<"W", "o", "r", "k", "e", "r", "G", "r", "o", "u", "p">>
QualificationLevel == <<"Q", "u", "a", "l", "i", "f", "i", "c", "a", "t", "i", "o", "n", "L", "e", "v", "e", "l">>
TaskID == <<"T", "a", "s", "k", "I", "D">>
TaskName == <<"T", "a", "s", "k", "N", "a", "m", "e">>
Category == <<"C", "a", "t", "e", "g", "o", "r", "y">>
Duration == <<"D", "u", "r", "a", "t", "i", "o", "n">>
RequiredSkills == <<"R", "e", "q", "u", "i", "r", "e", "d", "S", "k", "i", "l", "l", "s">>
PreferredPhases == <<"P", "r", "e", "f", "e", "r", "r", "e", "d", "P", "h", "a", "s", "e", "s">>
MaxConcurrent == <<"M", "a", "x", "C", "o", "n", "c", "u", "r", "r", "e", "n", "t">>

DataTypes == {"clients", "workers", "tasks"}

(***************************************************************************)
(* HEADER_MAPPINGS: per entity kind, the canonical fields in declaration   *)
(* order, each with its alternative names.                                 *)
(***************************************************************************)
HEADER_MAPPINGS_clients ==
  << <<ClientID,
        << <<"c", "l", "i", "e", "n", "t", "_", "i", "d">>,
           <<"c", "l", "i", "e", "n", "t", "i", "d">>,
           <<"i", "d">>,
           <<"c", "l", "i", "e", "n", "t">>,
           <<"c", "l", "i", "e", "n", "t", "_", "i", "d", "e", "n", "t", "i", "f", "i", "e", "r">> >> >>,
     <<ClientName,
        << <<"c", "l", "i", "e", "n", "t", "_", "n", "a", "m", "e">>,
           <<"c", "l", "i", "e", "n", "t", "n", "a", "m", "e">>,
           <<"n", "a", "m", "e">>,
           <<"c", "o", "m", "p", "a", "n", "y">>,
           <<"o", "r", "g", "a", "n", "i", "z", "a", "t", "i", "o", "n">> >> >>,
     <<PriorityLevel,
        << <<"p", "r", "i", "o", "r", "i", "t", "y", "_", "l", "e", "v", "e", "l">>,
           <<"p", "r", "i", "o", "r", "i", "t", "y">>,
           <<"i", "m", "p", "o", "r", "t", "a", "n", "c", "e">>,
           <<"u", "r", "g", "e", "n", "c", "y">> >> >>,
     <<RequestedTaskIDs,
        << <<"r", "e", "q", "u", "e", "s", "t", "e", "d", "_", "t", "a", "s", "k", "_", "i", "d", "s">>,
           <<"r", "e", "q", "u", "e", "s", "t", "e", "d", "_", "t", "a", "s", "k", "s">>,
           <<"t", "a", "s", "k", "s">>,
           <<"t", "a", "s", "k", "_", "i", "d", "s">>,
           <<"t", "a", "s", "k", "i", "d", "s">> >> >>,
     <<GroupTag,
        << <<"g", "r", "o", "u", "p", "_", "t", "a", "g">>,
           <<"g", "r", "o", "u", "p">>,
           <<"c", "a", "t", "e", "g", "o", "r", "y">>,
           <<"s", "e", "g", "m", "e", "n", "t">>,
           <<"t", "y", "p", "e">> >> >>,
     <<AttributesJSON,
        << <<"a", "t", "t", "r", "i", "b", "u", "t", "e", "s", "_", "j", "s", "o", "n">>,
           <<"a", "t", "t", "r", "i", "b", "u", "t", "e", "s">>,
           <<"m", "e", "t", "a", "d", "a", "t", "a">>,
           <<"p", "r", "o", "p", "e", "r", "t", "i", "e", "s">>,
           <<"e", "x", "t", "r", "a", "s">> >> >> >>

HEADER_MAPPINGS_workers ==
  << <<WorkerID,
        << <<"w", "o", "r", "k", "e", "r", "_", "i", "d">>,
           <<"w", "o", "r", "k", "e", "r", "i", "d">>,
           <<"i", "d">>,
           <<"e", "m", "p", "l", "o", "y", "e", "e", "_", "i", "d">>,
           <<"w", "o", "r", "k", "e", "r">> >> >>,
     <<WorkerName,
        << <<"w", "o", "r", "k", "e", "r", "_", "n", "a", "m", "e">>,
           <<"w", "o", "r", "k", "e", "r", "n", "a", "m", "e">>,
           <<"n", "a", "m", "e">>,
           <<"e", "m", "p", "l", "o", "y", "e", "e", "_", "n", "a", "m", "e">>,
           <<"f", "u", "l", "l", "_", "n", "a", "m", "e">> >> >>,
     <<Skills,
        << <<"s", "k", "i", "l", "l", "s">>,
           <<"s", "k", "i", "l", "l", "_", "s", "e", "t">>,
           <<"c", "o", "m", "p", "e", "t", "e", "n", "c", "i", "e", "s">>,
           <<"a", "b", "i", "l", "i", "t", "i", "e", "s">>,
           <<"e", "x", "p", "e", "r", "t", "i", "s", "e">> >> >>,
     <<AvailableSlots,
        << <<"a", "v", "a", "i", "l", "a", "b", "l", "e", "_", "s", "l", "o", "t", "s">>,
           <<"a", "v", "a", "i", "l", "a", "b", "i", "l", "i", "t", "y">>,
           <<"s", "l", "o", "t", "s">>,
           <<"c", "a", "p", "a", "c", "i", "t", "y">>,
           <<"s", "c", "h", "e", "d", "u", "l", "e">> >> >>,
     <<MaxLoadPerPhase,
        << <<"m", "a", "x", "_", "l", "o", "a", "d", "_", "p", "e", "r", "_", "p", "h", "a", "s", "e">>,
           <<"m", "a", "x", "_", "l", "o", "a", "d">>,
           <<"c", "a", "p", "a", "c", "i", "t", "y">>,
           <<"w", "o", "r", "k", "l", "o", "a", "d", "_", "l", "i", "m", "i", "t">> >> >>,
     <<WorkerGroup,
        << <<"w", "o", "r", "k", "e", "r", "_", "g", "r", "o", "u", "p">>,
           <<"g", "r", "o", "u", "p">>,
           <<"t", "e", "a", "m">>,
           <<"d", "e", "p", "a", "r", "t", "m", "e", "n", "t">>,
           <<"d", "i", "v", "i", "s", "i", "o", "n">> >> >>,
     <<QualificationLevel,
        << <<"q", "u", "a", "l", "i", "f", "i", "c", "a", "t", "i", "o", "n", "_", "l", "e", "v", "e", "l">>,
           <<"l", "e", "v", "e", "l">>,
           <<"e", "x", "p", "e", "r", "i", "e", "n", "c", "e">>,
           <<"s", "e", "n", "i", "o", "r", "i", "t", "y">>,
           <<"g", "r", "a", "d", "e">> >> >> >>

HEADER_MAPPINGS_tasks ==
  << <<TaskID,
        << <<"t", "a", "s", "k", "_", "i", "d">>,
           <<"t", "a", "s", "k", "i", "d">>,
           <<"i", "d">>,
           <<"t", "a", "s", "k">>,
           <<"t", "a", "s", "k", "_", "i", "d", "e", "n", "t", "i", "f", "i", "e", "r">> >> >>,
     <<TaskName,
        << <<"t", "a", "s", "k", "_", "n", "a", "m", "e">>,
           <<"t", "a", "s", "k", "n", "a", "m", "e">>,
           <<"n", "a", "m", "e">>,
           <<"t", "i", "t", "l", "e">>,
           <<"d", "e", "s", "c", "r", "i", "p", "t", "i", "o", "n">> >> >>,
     <<Category,
        << <<"c", "a", "t", "e", "g", "o", "r", "y">>,
           <<"t", "y", "p", "e">>,
           <<"c", "l", "a", "s", "s", "i", "f", "i", "c", "a", "t", "i", "o", "n">>,
           <<"d", "o", "m", "a", "i", "n">>,
           <<"a", "r", "e", "a">> >> >>,
     <<Duration,
        << <<"d", "u", "r", "a", "t", "i", "o", "n">>,
           <<"t", "i", "m", "e">>,
           <<"h", "o", "u", "r", "s">>,
           <<"e", "f", "f", "o", "r", "t">>,
           <<"e", "s", "t", "i", "m", "a", "t", "e", "d", "_", "d", "u", "r", "a", "t", "i", "o", "n">> >> >>,
     <<RequiredSkills,
        << <<"r", "e", "q", "u", "i", "r", "e", "d", "_", "s", "k", "i", "l", "l", "s">>,
           <<"s", "k", "i", "l", "l", "s">>,
           <<"s", "k", "i", "l", "l", "_", "r", "e", "q", "u", "i", "r", "e", "m", "e", "n", "t", "s">>,
           <<"c", "o", "m", "p", "e", "t", "e", "n", "c", "i", "e", "s">> >> >>,
     <<PreferredPhases,
        << <<"p", "r", "e", "f", "e", "r", "r", "e", "d", "_", "p", "h", "a", "s", "e", "s">>,
           <<"p", "h", "a", "s", "e", "s">>,
           <<"t", "i", "m", "e", "l", "i", "n", "e">>,
           <<"s", "c", "h", "e", "d", "u", "l", "e">>,
           <<"p", "e", "r", "i", "o", "d", "s">> >> >>,
     <<MaxConcurrent,
        << <<"m", "a", "x", "_", "c", "o", "n", "c", "u", "r", "r", "e", "n", "t">>,
           <<"c", "o", "n", "c", "u", "r", "r", "e", "n", "c", "y">>,
           <<"p", "a", "r", "a", "l", "l", "e", "l", "_", "l", "i", "m", "i", "t">>,
           <<"s", "i", "m", "u", "l", "t", "a", "n", "e", "o", "u", "s">> >> >> >>


HEADER_MAPPINGS ==
  [clients |-> HEADER_MAPPINGS_clients,
   workers |-> HEADER_MAPPINGS_workers,
   tasks   |-> HEADER_MAPPINGS_tasks]

(***************************************************************************)
(* calculateSimilarity                                                     *)
(***************************************************************************)
UpperCase == <<"A","B","C","D","E","F","G","H","I","J","K","L","M",
               "N","O","P","Q","R","S","T","U","V","W","X","Y","Z">>

LowerCase == <<"a","b","c","d","e","f","g","h","i","j","k","l","m",
               "n","o","p","q","r","s","t","u","v","w","x","y","z">>

Digits == <<"0","1","2","3","4","5","6","7","8","9">>

\* String.prototype.toLowerCase, one character
toLowerCase(c) ==
  IF InSeq(UpperCase, c)
  THEN LowerCase[CHOOSE i \in 1..26 : UpperCase[i] = c]
  ELSE c

\* the character class [a-z0-9]
IsLowerAlnum(c) == InSeq(LowerCase, c) \/ InSeq(Digits, c)

\* s.toLowerCase().replace(/[^a-z0-9]/g, '')
normalize(s) == SelectSeq([i \in 1..Len(s) |-> toLowerCase(s[i])], IsLowerAlnum)

\* String.prototype.includes
Includes(s, sub) ==
  \E i \in 0..(Len(s) - Len(sub)) : SubSeq(s, i + 1, i + Len(sub)) = sub

\* exact fractions
RatGt(a, b) == a[1] * b[2] > b[1] * a[2]

RatEq(a, b) == a[1] * b[2] = b[1] * a[2]

RatGe(a, b) == a[1] * b[2] >= b[1] * a[2]

\* one row matrix[j][0..len(s1)] of the Levenshtein matrix, built left to
\* right from the row above; acc[i + 1] is matrix[j][i]
RECURSIVE LevRow(_, _, _, _)
LevRow(prev, s1, ch, acc) ==
  IF Len(acc) = Len(s1) + 1 THEN acc
  ELSE LevRow(prev, s1, ch,
              Append(acc,
                     Min2(Min2(acc[Len(acc)] + 1, prev[Len(acc) + 1] + 1),
                          prev[Len(acc)] + (IF s1[Len(acc)] = ch THEN 0 ELSE 1))))

\* for (let j = 1; j <= s2.length; j++): prev is matrix[j - 1]
RECURSIVE LevRows(_, _, _, _)
LevRows(s1, s2, j, prev) ==
  IF j > Len(s2) THEN prev
  ELSE LET row == LevRow(prev, s1, s2[j], <<j>>)
       IN Strict(row, LevRows(s1, s2, j + 1, row))

\* matrix[s2.length][s1.length]
Levenshtein(s1, s2) ==
  LevRows(s1, s2, 1, [i \in 1..(Len(s1) + 1) |-> i - 1])[Len(s1) + 1]

\* the score without the test s1 === s2
calculateSimilarity_noIdentity(str1, str2) ==
  LET s1 == normalize(str1)
      s2 == normalize(str2)
  IN IF Includes(s1, s2) \/ Includes(s2, s1) THEN <<4, 5>>
     ELSE LET m == Max2(Len(s1), Len(s2))
          IN <<m - Levenshtein(s1, s2), m>>

calculateSimilarity(str1, str2) ==
  LET s1 == normalize(str1)
      s2 == normalize(str2)
  IN IF s1 = s2 THEN <<1, 1>>
     ELSE IF Includes(s1, s2) \/ Includes(s2, s1) THEN <<4, 5>>
     ELSE LET m == Max2(Len(s1), Len(s2))
          IN <<m - Levenshtein(s1, s2), m>>

(***************************************************************************)
(* mapHeaders                                                              *)
(***************************************************************************)
\* score > 0.6
AboveThreshold_inclusive(score) == RatGe(score, <<3, 5>>)

AboveThreshold(score) == RatGt(score, <<3, 5>>)

\* alternatives.forEach(alt => ...): the fuzzy match of one header
RECURSIVE FuzzyMatch(_, _, _, _)
FuzzyMatch(best, header, alternatives, k) ==
  IF k > Len(alternatives) THEN best
  ELSE LET score == calculateSimilarity(header, alternatives[k])
           updated == IF RatGt(score, best.bestScore) /\ AboveThreshold(score)
                      THEN [bestMatch |-> header, bestScore |-> score]
                      ELSE best
       IN Strict(updated, FuzzyMatch(updated, header, alternatives, k + 1))

\* headers.forEach(header => ...): the scan of one canonical field
RECURSIVE ScanHeaders(_, _, _, _, _)
ScanHeaders(best, headers, alternatives, usedHeaders, h) ==
  IF h > Len(headers) THEN best
  ELSE LET header == headers[h]
           updated ==
             IF header \in usedHeaders THEN best
             ELSE IF InSeq(alternatives, normalize(header))
                  THEN [bestMatch |-> header, bestScore |-> <<1, 1>>]
                  ELSE FuzzyMatch(best, header, alternatives, 1)
       IN Strict(updated,
                 ScanHeaders(updated, headers, alternatives, usedHeaders, h + 1))

\* usedHeaders.add(bestMatch)
MarkUsed_forgotten(usedHeaders, bestMatch) == usedHeaders

MarkUsed(usedHeaders, bestMatch) == usedHeaders \cup {bestMatch}

\* Object.entries(mappings): the fields in declaration order
SchemaEntries_reversed(dataType) ==
  LET m == HEADER_MAPPINGS[dataType]
  IN [i \in 1..Len(m) |-> m[Len(m) + 1 - i]]

SchemaEntries(dataType) == HEADER_MAPPINGS[dataType]

\* Object.entries(mappings).forEach(...): st = [result, usedHeaders]
\* if (bestMatch && bestScore > 0.6) { result[standardField] = bestMatch; ... }
ClaimHeader(st, standardField, best) ==
  IF best.bestMatch # <<>> /\ AboveThreshold(best.bestScore)
  THEN [result |-> [g \in DOMAIN st.result \cup {standardField} |->
                      IF g = standardField THEN best.bestMatch
                      ELSE st.result[g]],
        usedHeaders |-> MarkUsed(st.usedHeaders, best.bestMatch)]
  ELSE st

RECURSIVE MapFields(_, _, _, _)
MapFields(st, headers, entries, f) ==
  IF f > Len(entries) THEN st
  ELSE LET best == ScanHeaders([bestMatch |-> <<>>, bestScore |-> <<0, 1>>],
                               headers, entries[f][2], st.usedHeaders, 1)
           updated == ClaimHeader(st, entries[f][1], best)
       IN Strict(updated, MapFields(updated, headers, entries, f + 1))

mapHeaders(headers, dataType) ==
  MapFields([result |-> <<>>, usedHeaders |-> {}], headers,
            SchemaEntries(dataType), 1).result

(***************************************************************************)
(* JavaScript values.  Every value is a record with the same fields, so    *)
(* that values of different types can be compared: t is the type tag, n    *)
(* the number (or 0/1 for a boolean), s the characters of a string, a the  *)
(* elements of an array (for an object: its [key, value] pairs).           *)
(* Numbers in the modelled data are integers.                              *)
(***************************************************************************)
Undefined == [t |-> "undefined", n |-> 0, s |-> <<>>, a |-> <<>>]

Null == [t |-> "null", n |-> 0, s |-> <<>>, a |-> <<>>]

Num(i) == [t |-> "number", n |-> i, s |-> <<>>, a |-> <<>>]

Bool(b) == [t |-> "boolean", n |-> IF b THEN 1 ELSE 0, s |-> <<>>, a |-> <<>>]

Str(chars) == [t |-> "string", n |-> 0, s |-> chars, a |-> <<>>]

Arr(elems) == [t |-> "array", n |-> 0, s |-> <<>>, a |-> elems]

Obj(pairs) == [t |-> "object", n |-> 0, s |-> <<>>, a |-> pairs]

\* value === null || value === undefined
IsNullish(v) == v.t \in {"undefined", "null"}

\* ToBoolean
Truthy(v) ==
  CASE v.t \in {"undefined", "null"} -> FALSE
    [] v.t \in {"number", "boolean"} -> v.n # 0 /\ v.s = <<>>
    [] v.t = "string" -> v.s # <<>>
    [] OTHER -> TRUE

\* Array.isArray
IsArray(v) == v.t = "array"

\* row[key] of a plain object held as a function from keys to values
Get(row, key) == IF key \in DOMAIN row THEN row[key] ELSE Undefined

(***************************************************************************)
(* String primitives used by convertValue                                  *)
(***************************************************************************)
IsWhitespace(c) == c = " "

IsDigit(c) == InSeq(Digits, c)

DigitValue(c) == (CHOOSE i \in 1..10 : Digits[i] = c) - 1

RECURSIVE trimStart(_)
trimStart(s) ==
  IF s # <<>> /\ IsWhitespace(Head(s)) THEN trimStart(Tail(s)) ELSE s

RECURSIVE trimEnd(_)
trimEnd(s) ==
  IF s # <<>> /\ IsWhitespace(s[Len(s)])
  THEN trimEnd(SubSeq(s, 1, Len(s) - 1)) ELSE s

\* a text left as it is
trim_verbatim(s) == s

\* String.prototype.trim
trim(s) == trimEnd(trimStart(s))

\* String.prototype.startsWith / endsWith, one character
startsWith(s, c) == s # <<>> /\ s[1] = c

endsWith(s, c) == s # <<>> /\ s[Len(s)] = c

\* String.prototype.split(','): pieces is the list so far, cur the piece
\* being read
RECURSIVE SplitLoop(_, _, _, _, _)
SplitLoop(s, sep, i, cur, pieces) ==
  IF i > Len(s) THEN Append(pieces, cur)
  ELSE IF s[i] = sep THEN SplitLoop(s, sep, i + 1, <<>>, Append(pieces, cur))
  ELSE SplitLoop(s, sep, i + 1, Append(cur, s[i]), pieces)

split(s, sep) == SplitLoop(s, sep, 1, <<>>, <<>>)

\* the decimal digits of a natural number
RECURSIVE NatToString(_)
NatToString(k) ==
  IF k < 10 THEN <<Digits[k + 1]>>
  ELSE Append(NatToString(k \div 10), Digits[(k % 10) + 1])

\* Array.prototype.join
RECURSIVE Join(_, _)
Join(strs, sep) ==
  IF strs = <<>> THEN <<>>
  ELSE IF Len(strs) = 1 THEN strs[1]
  ELSE strs[1] \o sep \o Join(Tail(strs), sep)

\* String(value)
RECURSIVE StringOf(_)
StringOf(v) ==
  CASE v.t = "string" -> v.s
    [] v.t = "number" ->
         IF v.s # <<>> THEN v.s
         ELSE IF v.n < 0 THEN <<"-">> \o NatToString(-v.n) ELSE NatToString(v.n)
    [] v.t = "boolean" ->
         IF v.n = 1 THEN <<"t","r","u","e">> ELSE <<"f","a","l","s","e">>
    [] v.t = "null" -> <<"n","u","l","l">>
    [] v.t = "undefined" -> <<"u","n","d","e","f","i","n","e","d">>
    [] v.t = "array" ->
         Join([i \in 1..Len(v.a) |->
                 IF IsNullish(v.a[i]) THEN <<>> ELSE StringOf(v.a[i])], <<",">>)
    [] OTHER -> <<"[","o","b","j","e","c","t"," ","O","b","j","e","c","t","]">>

\* a numeric result that may be NaN
NaN == [nan |-> TRUE, n |-> 0]

Number(i) == [nan |-> FALSE, n |-> i]

\* the value of the longest run of decimal digits at the start of s
RECURSIVE DigitsPrefix(_, _, _)
DigitsPrefix(s, i, acc) ==
  IF i <= Len(s) /\ IsDigit(s[i])
  THEN DigitsPrefix(s, i + 1, [count |-> acc.count + 1,
                               n |-> acc.n * 10 + DigitValue(s[i])])
  ELSE acc

\* parseFloat, on texts whose numbers are written as integers: leading
\* white space, an optional sign, then the longest run of digits
parseFloat(str) ==
  LET s == trimStart(str)
      signed == s # <<>> /\ s[1] \in {"-", "+"}
      body == IF signed THEN Tail(s) ELSE s
      d == DigitsPrefix(body, 1, [count |-> 0, n |-> 0])
  IN IF d.count = 0 THEN NaN
     ELSE Number(IF signed /\ s[1] = "-" THEN -d.n ELSE d.n)

\* parseInt(s) with no radix, on texts without a 0x prefix
parseInt(str) ==
  LET s == trimStart(str)
      signed == s # <<>> /\ s[1] \in {"-", "+"}
      body == IF signed THEN Tail(s) ELSE s
      d == DigitsPrefix(body, 1, [count |-> 0, n |-> 0])
  IN IF d.count = 0 THEN NaN
     ELSE Number(IF signed /\ s[1] = "-" THEN -d.n ELSE d.n)

(***************************************************************************)
(* JSON.parse for texts made of white space, integers, strings without     *)
(* escapes, the literals true, false and null, arrays and objects (the     *)
(* modelled cells hold no '.', no exponent and no backslash).              *)
(* A parse step returns [ok, v, i]: success, the value, the next index.    *)
(***************************************************************************)
JsonFail == [ok |-> FALSE, v |-> Undefined, i |-> 0]

JsonOk(v, i) == [ok |-> TRUE, v |-> v, i |-> i]

RECURSIVE SkipWs(_, _)
SkipWs(s, i) == IF i <= Len(s) /\ IsWhitespace(s[i]) THEN SkipWs(s, i + 1) ELSE i

\* s holds the characters of word from index i on
MatchesAt(s, i, word) ==
  i + Len(word) - 1 <= Len(s) /\ SubSeq(s, i, i + Len(word) - 1) = word

\* "..." : the index of the closing quote from i on, or 0
RECURSIVE ClosingQuote(_, _)
ClosingQuote(s, i) ==
  IF i > Len(s) THEN 0
  ELSE IF s[i] = "\"" THEN i
  ELSE ClosingQuote(s, i + 1)

JsonString(s, i) ==
  LET q == ClosingQuote(s, i + 1)
  IN IF q = 0 THEN JsonFail ELSE JsonOk(Str(SubSeq(s, i + 1, q - 1)), q + 1)

\* -? ( 0 | [1-9][0-9]* )
JsonNumber(s, i) ==
  LET neg == s[i] = "-"
      b == IF neg THEN i + 1 ELSE i
      d == DigitsPrefix(s, b, [count |-> 0, n |-> 0])
  IN IF d.count = 0 THEN JsonFail
     ELSE IF s[b] = "0" /\ d.count > 1 THEN JsonOk(Num(0), b + 1)
     ELSE JsonOk(Num(IF neg THEN -d.n ELSE d.n), b + d.count)

RECURSIVE JsonValue(_, _)
RECURSIVE JsonElements(_, _, _)
RECURSIVE JsonMembers(_, _, _)

\* the elements of an array after '[' or after a ',': i is at an element
JsonElements(s, i, acc) ==
  LET e == JsonValue(s, i)
      j == SkipWs(s, e.i)
  IN IF ~e.ok \/ j > Len(s) THEN JsonFail
     ELSE IF s[j] = "]" THEN JsonOk(Arr(Append(acc, e.v)), j + 1)
     ELSE IF s[j] = "," THEN JsonElements(s, j + 1, Append(acc, e.v))
     ELSE JsonFail

\* the members of an object after '{' or after a ',': i is at a key
JsonMembers(s, i, acc) ==
  LET k == SkipWs(s, i)
      key == IF k <= Len(s) /\ s[k] = "\"" THEN JsonString(s, k) ELSE JsonFail
      c == SkipWs(s, key.i)
      val == IF key.ok /\ c <= Len(s) /\ s[c] = ":"
             THEN JsonValue(s, c + 1) ELSE JsonFail
      j == SkipWs(s, val.i)
      pair == Arr(<<key.v, val.v>>)
  IN IF ~val.ok \/ j > Len(s) THEN JsonFail
     ELSE IF s[j] = "}" THEN JsonOk(Obj(Append(acc, pair)), j + 1)
     ELSE IF s[j] = "," THEN JsonMembers(s, j + 1, Append(acc, pair))
     ELSE JsonFail

JsonValue(s, i0) ==
  LET i == SkipWs(s, i0)
  IN IF i > Len(s) THEN JsonFail
     ELSE IF s[i] = "[" THEN
            (LET j == SkipWs(s, i + 1)
             IN IF j <= Len(s) /\ s[j] = "]" THEN JsonOk(Arr(<<>>), j + 1)
                ELSE JsonElements(s, i + 1, <<>>))
     ELSE IF s[i] = "{" THEN
            (LET j == SkipWs(s, i + 1)
             IN IF j <= Len(s) /\ s[j] = "}" THEN JsonOk(Obj(<<>>), j + 1)
                ELSE JsonMembers(s, i + 1, <<>>))
     ELSE IF s[i] = "\"" THEN JsonString(s, i)
     ELSE IF s[i] = "-" \/ IsDigit(s[i]) THEN JsonNumber(s, i)
     ELSE IF MatchesAt(s, i, <<"t","r","u","e">>) THEN JsonOk(Bool(TRUE), i + 4)
     ELSE IF MatchesAt(s, i, <<"f","a","l","s","e">>) THEN JsonOk(Bool(FALSE), i + 5)
     ELSE IF MatchesAt(s, i, <<"n","u","l","l">>) THEN JsonOk(Null, i + 4)
     ELSE JsonFail

\* JSON.parse(text): [ok, v]; ok = FALSE when JSON.parse throws
JSONparse(text) ==
  LET r == JsonValue(text, 1)
  IN IF r.ok /\ SkipWs(text, r.i) > Len(text)
     THEN [ok |-> TRUE, v |-> r.v]
     ELSE [ok |-> FALSE, v |-> Undefined]

(***************************************************************************)
(* convertValue                                                            *)
(***************************************************************************)
\* s => s.trim() over the pieces of a split
TrimAll(pieces) == [i \in 1..Len(pieces) |-> trim(pieces[i])]

NonEmpty(piece) == piece # <<>>

StrArr(pieces) == Arr([i \in 1..Len(pieces) |-> Str(pieces[i])])

\* .map(s => parseInt(s.trim())).filter(n => !isNaN(n))
RECURSIVE ParseIntPieces(_, _)
ParseIntPieces(pieces, acc) ==
  IF pieces = <<>> THEN acc
  ELSE LET p == parseInt(trim(Head(pieces)))
       IN ParseIntPieces(Tail(pieces),
                         IF p.nan THEN acc ELSE Append(acc, Num(p.n)))

\* stringValue.slice(1, -1)
SliceInner(s) == SubSeq(s, 2, Len(s) - 1)

IsListField(fieldName) ==
  \/ Includes(fieldName, <<"S","k","i","l","l","s">>)
  \/ Includes(fieldName, <<"T","a","s","k","I","D","s">>)
  \/ Includes(fieldName, <<"P","h","a","s","e","s">>)

IsJsonField(fieldName) ==
  \/ Includes(fieldName, <<"J","S","O","N">>)
  \/ Includes(fieldName, <<"A","t","t","r","i","b","u","t","e","s">>)

IsNumberField(fieldName) ==
  \/ Includes(fieldName, <<"L","e","v","e","l">>)
  \/ Includes(fieldName, <<"D","u","r","a","t","i","o","n">>)
  \/ Includes(fieldName, <<"L","o","a","d">>)
  \/ Includes(fieldName, <<"C","o","n","c","u","r","r","e","n","t">>)

IsSlotsField(fieldName) == Includes(fieldName, <<"S","l","o","t","s">>)

convertValue(value, fieldName) ==
  IF IsNullish(value) \/ value = Str(<<>>) THEN Null
  ELSE
    LET stringValue == trim(StringOf(value))
        bracketed == startsWith(stringValue, "[") /\ endsWith(stringValue, "]")
        parsed == JSONparse(stringValue)
    IN IF IsListField(fieldName) THEN
         IF bracketed
         THEN IF parsed.ok THEN parsed.v
              ELSE StrArr(TrimAll(split(SliceInner(stringValue), ",")))
         ELSE StrArr(SelectSeq(TrimAll(split(stringValue, ",")), NonEmpty))
       ELSE IF IsJsonField(fieldName) THEN
         IF parsed.ok THEN parsed.v ELSE Str(stringValue)
       ELSE IF IsNumberField(fieldName) THEN
         LET num == parseFloat(stringValue)
         IN IF num.nan THEN Null ELSE Num(num.n)
       ELSE IF IsSlotsField(fieldName) THEN
         IF bracketed
         THEN IF parsed.ok THEN parsed.v
              ELSE Arr(ParseIntPieces(split(SliceInner(stringValue), ","), <<>>))
         ELSE Arr(ParseIntPieces(split(stringValue, ","), <<>>))
       ELSE Str(stringValue)

(***************************************************************************)
(* processFile                                                             *)
(***************************************************************************)
\* the ValidationResult literals of processFile and of the page's state
\* errors: [] / warnings: [] written in place: a reference to an empty array
\* that nothing pushes to (the validator's own arrays have references >= 1)
EmptyArray == 0

ValidationOf(isValid, errs, warns, confidence, nErr, nWarn, validRows, totalRows) ==
  [isValid |-> isValid, errors |-> errs, warnings |-> warns,
   confidence |-> confidence,
   summary |-> [totalErrors |-> nErr, totalWarnings |-> nWarn,
                validRows |-> validRows, totalRows |-> totalRows]]

\* Math.round(p / q) for q > 0: the nearest integer, halves towards +infinity
RoundDiv(p, q) == (2 * p + q) \div (2 * q)

\* the result of the catch branch
FailedResult ==
  [success |-> FALSE, data |-> <<>>, headers |-> <<>>, mappedHeaders |-> <<>>,
   validation |-> ValidationOf(FALSE, EmptyArray, EmptyArray, 0, 1, 0, 0, 0),
   aiConfidence |-> 0]

\* Object.values(mappedHeaders).includes(header)
IsMappedHeader(mappedHeaders, header) ==
  \E f \in DOMAIN mappedHeaders : mappedHeaders[f] = header

\* headers.forEach(header => { if (!...includes(header)) cleanRow[header] = row[header] })
PassThrough_converted(cleanRow, row, headers, mappedHeaders) ==
  LET unmapped == {h \in Range(headers) : ~IsMappedHeader(mappedHeaders, h)}
  IN [k \in DOMAIN cleanRow \cup unmapped |->
        IF k \in unmapped THEN convertValue(Get(row, k), k) ELSE cleanRow[k]]

PassThrough(cleanRow, row, headers, mappedHeaders) ==
  LET unmapped == {h \in Range(headers) : ~IsMappedHeader(mappedHeaders, h)}
  IN [k \in DOMAIN cleanRow \cup unmapped |->
        IF k \in unmapped THEN Get(row, k) ELSE cleanRow[k]]

\* rawData.map(row => cleanRow): the mapped fields converted, then the
\* unmapped headers added as they are
CleanRow(row, headers, mappedHeaders) ==
  PassThrough([f \in DOMAIN mappedHeaders |->
                 convertValue(Get(row, mappedHeaders[f]), f)],
              row, headers, mappedHeaders)

\* a decoded file: ext is the lower-cased extension, tooLarge tells whether
\* file.size exceeds 10MB, parseError whether the CSV/XLSX decoder rejects,
\* headers is Object.keys(rawData[0]) and rows the decoded rows.
\* processingTime (a clock reading) is left out of the result.
processFile(file, dataType) ==
  IF \/ file.ext \notin {"csv", "xlsx", "xls"}
     \/ file.tooLarge
     \/ file.parseError
     \/ Len(file.rows) = 0
  THEN FailedResult
  ELSE
    LET headers == file.headers
        mappedHeaders == mapHeaders(headers, dataType)
        processedData == [r \in 1..Len(file.rows) |->
                            CleanRow(file.rows[r], headers, mappedHeaders)]
    IN [success |-> TRUE,
        data |-> processedData,
        headers |-> headers,
        mappedHeaders |-> mappedHeaders,
        validation |-> ValidationOf(TRUE, EmptyArray, EmptyArray, 100, 0, 0,
                                    Len(processedData), Len(processedData)),
        aiConfidence |-> RoundDiv(Cardinality(DOMAIN mappedHeaders) * 100,
                                  Len(HEADER_MAPPINGS[dataType]))]

\* no file chosen, no result yet
NoFile == [ext |-> "", tooLarge |-> FALSE, parseError |-> FALSE,
           headers |-> <<>>, rows |-> <<>>]

NoFileResult == [returned |-> FALSE, result |-> FailedResult]

(***************************************************************************)
(* Values as the validator's tests and arithmetic treat them               *)
(***************************************************************************)
\* the number value NaN
NaNValue == [t |-> "number", n |-> 0, s |-> <<"N","a","N">>, a |-> <<>>]

IsNaNValue(v) == v.t = "number" /\ v.s # <<>>

\* typeof v === 'number' / 'string'
IsNumber(v) == v.t = "number"

IsString(v) == v.t = "string"

\* Number(text): the empty text is 0, a signed run of digits its value,
\* anything else NaN
StringToNumber(text) ==
  LET s == trim(text)
      signed == s # <<>> /\ s[1] \in {"-", "+"}
      body == IF signed THEN Tail(s) ELSE s
      d == DigitsPrefix(body, 1, [count |-> 0, n |-> 0])
  IN IF s = <<>> THEN Number(0)
     ELSE IF d.count = 0 \/ d.count # Len(body) THEN NaN
     ELSE Number(IF signed /\ s[1] = "-" THEN -d.n ELSE d.n)

\* ToNumber, as the operators <, <=, >, * and Math.max apply it
ToNumber(v) ==
  CASE v.t = "number" -> IF IsNaNValue(v) THEN NaN ELSE Number(v.n)
    [] v.t = "boolean" -> Number(v.n)
    [] v.t = "null" -> Number(0)
    [] v.t \in {"undefined", "object"} -> NaN
    [] OTHER -> StringToNumber(StringOf(v))

\* a numeric result as a value
FromNumber(x) == IF x.nan THEN NaNValue ELSE Num(x.n)

\* v < k, v <= k, v > k against a numeric result k (false when either is NaN)
JsLt(v, k) == LET x == ToNumber(v) IN ~x.nan /\ ~k.nan /\ x.n < k.n

JsLe(v, k) == LET x == ToNumber(v) IN ~x.nan /\ ~k.nan /\ x.n <= k.n

JsGt(v, k) == LET x == ToNumber(v) IN ~x.nan /\ ~k.nan /\ x.n > k.n

\* a + b
JsAdd(a, b) ==
  IF a.t \in {"string", "array", "object"} \/ b.t \in {"string", "array", "object"}
  THEN Str(StringOf(a) \o StringOf(b))
  ELSE LET x == ToNumber(a)
           y == ToNumber(b)
       IN IF x.nan \/ y.nan THEN NaNValue ELSE Num(x.n + y.n)

\* a * k for a natural number k
JsTimes(a, k) ==
  LET x == ToNumber(a) IN IF x.nan THEN NaNValue ELSE Num(x.n * k)

\* v || fallback
OrElse(v, fallback) == IF Truthy(v) THEN v ELSE fallback

\* Math.max(...values, 0)
RECURSIVE MathMax0(_, _)
MaxOfNumbers(acc, x) ==
  IF acc.nan \/ x.nan THEN NaN ELSE Number(Max2(acc.n, x.n))

MathMax0(values, acc) ==
  IF values = <<>> THEN acc
  ELSE MathMax0(Tail(values), MaxOfNumbers(acc, ToNumber(Head(values))))

\* Set.prototype.has: primitives by value, arrays and objects by identity
\* (a value read from one record is never the array held by another)
SetHas(set, v) == v.t \notin {"array", "object"} /\ v \in set

\* v?.length
LengthOf(v) ==
  CASE v.t = "array" -> Num(Len(v.a))
    [] v.t = "string" -> Num(Len(v.s))
    [] OTHER -> Undefined

\* rows.flatMap(row => row[field] || []): the elements of an array cell, a
\* truthy cell of another kind as it is, nothing for a falsy cell
RECURSIVE FlatMapField(_, _)
FlatMapField(rows, field) ==
  IF rows = <<>> THEN <<>>
  ELSE LET v == Get(Head(rows), field)
           here == IF ~Truthy(v) THEN <<>>
                   ELSE IF IsArray(v) THEN v.a ELSE <<v>>
       IN here \o FlatMapField(Tail(rows), field)

\* array.filter(pred) is SelectSeq; array.some(pred)
Some(elems, Pred(_)) == \E i \in 1..Len(elems) : Pred(elems[i])

\* elems.join(', ')
JoinValues(elems) ==
  Join([i \in 1..Len(elems) |->
          IF IsNullish(elems[i]) THEN <<>> ELSE StringOf(elems[i])], <<",", " ">>)

(***************************************************************************)
(* DataValidator: the accumulator and its diagnostics                      *)
(*                                                                         *)
(* An instance holds two arrays by reference.  heap[r] is the content of   *)
(* the array with reference r; errors and warnings are the references the  *)
(* instance holds now; a returned result holds references too.             *)
(***************************************************************************)
\* a message: a fixed text followed by an interpolated part
Msg(text, arg) == [text |-> text, arg |-> arg]

\* the optional suggestion parameter: absent, or a text
NoSuggestion == <<>>

Suggest(text) == <<text>>

\* !!suggestion
HasSuggestion(suggestion) == suggestion # <<>> /\ suggestion[1] # ""

\* generateId() of '@/lib/utils': the identifier handed out when nextId
\* identifiers have been handed out before
generateId(inst) == inst.nextId

\* new DataValidator(): errors = [], warnings = []
NewValidator ==
  [heap |-> << <<>>, <<>> >>, errors |-> 1, warnings |-> 2, nextId |-> 1]

\* the calls a validation pass makes, before they reach the accumulator
Err(entity, row, column, message, value, suggestion) ==
  [type |-> "error", entity |-> entity, row |-> row, column |-> column,
   message |-> message, value |-> value, suggestion |-> suggestion]

Warn(entity, row, column, message, value, suggestion) ==
  [type |-> "warning", entity |-> entity, row |-> row, column |-> column,
   message |-> message, value |-> value, suggestion |-> suggestion]

\* if (cond) this.addError(...) / this.addWarning(...)
When(cond, call) == IF cond THEN <<call>> ELSE <<>>

addError(inst, entity, row, column, message, value, suggestion) ==
  [inst EXCEPT
     !.heap[inst.errors] =
        Append(@, [id |-> generateId(inst), type |-> "error",
                   severity |-> "high", entity |-> entity, row |-> row,
                   column |-> column, message |-> message, value |-> value,
                   suggestion |-> suggestion,
                   autoFixAvailable |-> HasSuggestion(suggestion)]),
     !.nextId = @ + 1]

\* a warning pushed onto this.errors
addWarning_misfiled(inst, entity, row, column, message, value, suggestion) ==
  [inst EXCEPT
     !.heap[inst.errors] =
        Append(@, [id |-> generateId(inst), type |-> "warning",
                   severity |-> "medium", entity |-> entity, row |-> row,
                   column |-> column, message |-> message, value |-> value,
                   suggestion |-> suggestion,
                   autoFixAvailable |-> HasSuggestion(suggestion)]),
     !.nextId = @ + 1]

addWarning(inst, entity, row, column, message, value, suggestion) ==
  [inst EXCEPT
     !.heap[inst.warnings] =
        Append(@, [id |-> generateId(inst), type |-> "warning",
                   severity |-> "medium", entity |-> entity, row |-> row,
                   column |-> column, message |-> message, value |-> value,
                   suggestion |-> suggestion,
                   autoFixAvailable |-> HasSuggestion(suggestion)]),
     !.nextId = @ + 1]

\* one this.addError(...) or this.addWarning(...) call reaches the accumulator
Accumulate(inst, c) ==
  IF c.type = "error"
  THEN addError(inst, c.entity, c.row, c.column, c.message, c.value, c.suggestion)
  ELSE addWarning(inst, c.entity, c.row, c.column, c.message, c.value, c.suggestion)

\* the calls of one pass reach the accumulator in program order
RECURSIVE Emit(_, _)
EmitRest(next, calls) == Strict(next, Emit(next, calls))

Emit(inst, calls) ==
  IF calls = <<>> THEN inst
  ELSE EmitRest(Accumulate(inst, Head(calls)), Tail(calls))

(***************************************************************************)
(* The per-entity passes                                                   *)
(***************************************************************************)
\* ['Enterprise', 'SMB', 'Startup', 'Freelancer']
GroupTags ==
  { Str(<<"E","n","t","e","r","p","r","i","s","e">>),
    Str(<<"S","M","B">>),
    Str(<<"S","t","a","r","t","u","p">>),
    Str(<<"F","r","e","e","l","a","n","c","e","r">>) }

\* skill => !skill || typeof skill !== 'string'
EmptyOrInvalid(x) == ~Truthy(x) \/ ~IsString(x)

\* slot => typeof slot !== 'number' || slot < 0
InvalidSlot(x) == ~IsNumber(x) \/ JsLt(x, Number(0))

\* phase => typeof phase !== 'number' || phase < 1
InvalidPhase(x) == ~IsNumber(x) \/ JsLt(x, Number(1))

\* the body of clients.forEach: seen is clientIds before this row
ClientChecks(client, index, seen) ==
  LET id == Get(client, ClientID)
      name == Get(client, ClientName)
      level == Get(client, PriorityLevel)
      requested == Get(client, RequestedTaskIDs)
      attributes == Get(client, AttributesJSON)
      tag == Get(client, GroupTag)
  IN When(~Truthy(id),
          Err("clients", index, ClientID,
              Msg("Missing required field: ClientID", <<>>), id, NoSuggestion))
     \o When(~Truthy(name),
          Err("clients", index, ClientName,
              Msg("Missing required field: ClientName", <<>>), name, NoSuggestion))
     \o When(IsNullish(level),
          Err("clients", index, PriorityLevel,
              Msg("Missing required field: PriorityLevel", <<>>), level, NoSuggestion))
     \o When(Truthy(id) /\ SetHas(seen, id),
          Err("clients", index, ClientID,
              Msg("Duplicate ClientID: ", StringOf(id)), id,
              Suggest("Consider adding a suffix or using a unique identifier")))
     \o When(~IsNullish(level) /\ (JsLt(level, Number(1)) \/ JsGt(level, Number(5))),
          Err("clients", index, PriorityLevel,
              Msg("PriorityLevel must be between 1 and 5", <<>>), level,
              Suggest("Use a value between 1 (lowest) and 5 (highest)")))
     \o When(Truthy(requested) /\ ~IsArray(requested),
          Err("clients", index, RequestedTaskIDs,
              Msg("RequestedTaskIDs must be an array", <<>>), requested,
              Suggest("Format as comma-separated values or JSON array")))
     \o When(Truthy(requested) /\ IsArray(requested)
               /\ Some(requested.a, EmptyOrInvalid),
          Warn("clients", index, RequestedTaskIDs,
               Msg("Some task IDs are empty or invalid", <<>>), requested, NoSuggestion))
     \o When(Truthy(attributes) /\ IsString(attributes)
               /\ ~JSONparse(attributes.s).ok,
          Err("clients", index, AttributesJSON,
              Msg("Invalid JSON format in AttributesJSON", <<>>), attributes,
              Suggest("Ensure proper JSON syntax with quotes around keys and values")))
     \o When(Truthy(name) /\ JsLt(LengthOf(name), Number(2)),
          Warn("clients", index, ClientName,
               Msg("Client name seems too short", <<>>), name, NoSuggestion))
     \o When(Truthy(tag) /\ tag \notin GroupTags,
          Warn("clients", index, GroupTag,
               Msg("Unusual group tag value", <<>>), tag, NoSuggestion))

\* a test that lets an empty list pass
MissingSkills_absentOnly(skills) == ~Truthy(skills) \/ ~IsArray(skills)

\* !worker.Skills || !Array.isArray(worker.Skills) || worker.Skills.length === 0
MissingSkills(skills) ==
  ~Truthy(skills) \/ ~IsArray(skills) \/ Len(skills.a) = 0

\* the body of workers.forEach: seen is workerIds before this row
WorkerChecks(worker, index, seen) ==
  LET id == Get(worker, WorkerID)
      name == Get(worker, WorkerName)
      skills == Get(worker, Skills)
      slots == Get(worker, AvailableSlots)
      load == Get(worker, MaxLoadPerPhase)
      level == Get(worker, QualificationLevel)
      invalidSlots == SelectSeq(slots.a, InvalidSlot)
      emptySkills == SelectSeq(skills.a, EmptyOrInvalid)
  IN When(~Truthy(id),
          Err("workers", index, WorkerID,
              Msg("Missing required field: WorkerID", <<>>), id, NoSuggestion))
     \o When(~Truthy(name),
          Err("workers", index, WorkerName,
              Msg("Missing required field: WorkerName", <<>>), name, NoSuggestion))
     \o When(MissingSkills(skills),
          Err("workers", index, Skills,
              Msg("Missing or empty skills array", <<>>), skills,
              Suggest("Add at least one skill")))
     \o When(Truthy(id) /\ SetHas(seen, id),
          Err("workers", index, WorkerID,
              Msg("Duplicate WorkerID: ", StringOf(id)), id, NoSuggestion))
     \o When(Truthy(slots) /\ ~IsArray(slots),
          Err("workers", index, AvailableSlots,
              Msg("AvailableSlots must be an array", <<>>), slots, NoSuggestion))
     \o When(Truthy(slots) /\ IsArray(slots) /\ Len(invalidSlots) > 0,
          Err("workers", index, AvailableSlots,
              Msg("Invalid slot values (must be positive numbers)", <<>>),
              Arr(invalidSlots), NoSuggestion))
     \o When(~IsNullish(load) /\ JsLe(load, Number(0)),
          Err("workers", index, MaxLoadPerPhase,
              Msg("MaxLoadPerPhase must be greater than 0", <<>>), load, NoSuggestion))
     \o When(~IsNullish(load) /\ Truthy(slots) /\ IsArray(slots)
               /\ JsGt(load, MathMax0(slots.a, Number(0))),
          Warn("workers", index, MaxLoadPerPhase,
               Msg("MaxLoadPerPhase exceeds maximum available slots", <<>>),
               load, NoSuggestion))
     \o When(Truthy(skills) /\ IsArray(skills) /\ Len(emptySkills) > 0,
          Warn("workers", index, Skills,
               Msg("Some skills are empty or invalid", <<>>),
               Arr(emptySkills), NoSuggestion))
     \o When(Truthy(name) /\ JsLt(LengthOf(name), Number(2)),
          Warn("workers", index, WorkerName,
               Msg("Worker name seems too short", <<>>), name, NoSuggestion))
     \o When(~IsNullish(level) /\ (JsLt(level, Number(1)) \/ JsGt(level, Number(10))),
          Warn("workers", index, QualificationLevel,
               Msg("Unusual qualification level (expected 1-10)", <<>>),
               level, NoSuggestion))

\* the body of tasks.forEach: seen is taskIds before this row
TaskChecks(task, index, seen) ==
  LET id == Get(task, TaskID)
      name == Get(task, TaskName)
      category == Get(task, Category)
      duration == Get(task, Duration)
      required == Get(task, RequiredSkills)
      phases == Get(task, PreferredPhases)
      concurrent == Get(task, MaxConcurrent)
      emptySkills == SelectSeq(required.a, EmptyOrInvalid)
      invalidPhases == SelectSeq(phases.a, InvalidPhase)
  IN When(~Truthy(id),
          Err("tasks", index, TaskID,
              Msg("Missing required field: TaskID", <<>>), id, NoSuggestion))
     \o When(~Truthy(name),
          Err("tasks", index, TaskName,
              Msg("Missing required field: TaskName", <<>>), name, NoSuggestion))
     \o When(~Truthy(category),
          Err("tasks", index, Category,
              Msg("Missing required field: Category", <<>>), category, NoSuggestion))
     \o When(IsNullish(duration),
          Err("tasks", index, Duration,
              Msg("Missing required field: Duration", <<>>), duration, NoSuggestion))
     \o When(Truthy(id) /\ SetHas(seen, id),
          Err("tasks", index, TaskID,
              Msg("Duplicate TaskID: ", StringOf(id)), id, NoSuggestion))
     \o When(~IsNullish(duration) /\ JsLe(duration, Number(0)),
          Err("tasks", index, Duration,
              Msg("Duration must be greater than 0", <<>>), duration, NoSuggestion))
     \o When(~IsNullish(duration) /\ JsGt(duration, Number(1000)),
          Warn("tasks", index, Duration,
               Msg("Unusually long duration", <<>>), duration, NoSuggestion))
     \o When(Truthy(required) /\ ~IsArray(required),
          Err("tasks", index, RequiredSkills,
              Msg("RequiredSkills must be an array", <<>>), required, NoSuggestion))
     \o When(Truthy(required) /\ IsArray(required) /\ Len(required.a) = 0,
          Warn("tasks", index, RequiredSkills,
               Msg("No required skills specified", <<>>), required, NoSuggestion))
     \o When(Truthy(required) /\ IsArray(required) /\ Len(required.a) # 0
               /\ Len(emptySkills) > 0,
          Warn("tasks", index, RequiredSkills,
               Msg("Some required skills are empty or invalid", <<>>),
               Arr(emptySkills), NoSuggestion))
     \o When(Truthy(phases) /\ ~IsArray(phases),
          Err("tasks", index, PreferredPhases,
              Msg("PreferredPhases must be an array", <<>>), phases, NoSuggestion))
     \o When(Truthy(phases) /\ IsArray(phases) /\ Len(invalidPhases) > 0,
          Err("tasks", index, PreferredPhases,
              Msg("Invalid phase values (must be positive numbers)", <<>>),
              Arr(invalidPhases), NoSuggestion))
     \o When(~IsNullish(concurrent) /\ JsLe(concurrent, Number(0)),
          Err("tasks", index, MaxConcurrent,
              Msg("MaxConcurrent must be greater than 0", <<>>),
              concurrent, NoSuggestion))
     \o When(Truthy(name) /\ JsLt(LengthOf(name), Number(3)),
          Warn("tasks", index, TaskName,
               Msg("Task name seems too short", <<>>), name, NoSuggestion))

\* the identifier field of an entity kind
IdField(dataType) ==
  CASE dataType = "clients" -> ClientID
    [] dataType = "workers" -> WorkerID
    [] OTHER -> TaskID

\* if (row.ID) { ...; ids.add(row.ID) }
AddSeen_forgotten(seen, id) == seen

AddSeen(seen, id) == IF Truthy(id) THEN seen \cup {id} ELSE seen

\* one turn of a forEach that gives up on the rows after a row with an error
RowStep_halting(st, calls, id) ==
  IF st.inst.heap[st.inst.errors] # <<>> THEN st
  ELSE [inst |-> Emit(st.inst, calls), seen |-> AddSeen(st.seen, id)]

\* one turn of a forEach: the row's calls reach the accumulator and
\* ids.add(row.ID) follows; st.seen is the running identifier set
RowStep(st, calls, id) ==
  [inst |-> Emit(st.inst, calls), seen |-> AddSeen(st.seen, id)]

\* clients.forEach((client, index) => ...)
RECURSIVE ClientRows(_, _, _)
ClientRows(st, clients, index) ==
  IF index >= Len(clients) THEN st
  ELSE ClientRows(RowStep(st, ClientChecks(clients[index + 1], index, st.seen),
                          Get(clients[index + 1], ClientID)),
                  clients, index + 1)

\* workers.forEach((worker, index) => ...)
RECURSIVE WorkerRows(_, _, _)
WorkerRows(st, workers, index) ==
  IF index >= Len(workers) THEN st
  ELSE WorkerRows(RowStep(st, WorkerChecks(workers[index + 1], index, st.seen),
                          Get(workers[index + 1], WorkerID)),
                  workers, index + 1)

\* tasks.forEach((task, index) => ...)
RECURSIVE TaskRows(_, _, _)
TaskRows(st, tasks, index) ==
  IF index >= Len(tasks) THEN st
  ELSE TaskRows(RowStep(st, TaskChecks(tasks[index + 1], index, st.seen),
                        Get(tasks[index + 1], TaskID)),
                tasks, index + 1)

validateClients(inst, clients) ==
  ClientRows([inst |-> inst, seen |-> {}], clients, 0).inst

validateWorkers(inst, workers) ==
  WorkerRows([inst |-> inst, seen |-> {}], workers, 0).inst

validateTasks(inst, tasks) ==
  TaskRows([inst |-> inst, seen |-> {}], tasks, 0).inst

(***************************************************************************)
(* The cross-entity pass, validate and generateAutoFix                     *)
(***************************************************************************)
\* the optional allData parameter
NoAllData == [present |-> FALSE, clients |-> <<>>, workers |-> <<>>, tasks |-> <<>>]

AllData(clients, workers, tasks) ==
  [present |-> TRUE, clients |-> clients, workers |-> workers, tasks |-> tasks]

\* tasks.reduce((sum, task) => sum + (task.Duration || 0), 0)
RECURSIVE TotalTaskDuration(_, _)
TotalTaskDuration(tasks, sum) ==
  IF tasks = <<>> THEN sum
  ELSE TotalTaskDuration(Tail(tasks),
                         JsAdd(sum, OrElse(Get(Head(tasks), Duration), Num(0))))

\* (worker.MaxLoadPerPhase || 0) * (worker.AvailableSlots?.length || 1)
WorkerCapacity(w) ==
  JsTimes(OrElse(Get(w, MaxLoadPerPhase), Num(0)),
          OrElse(LengthOf(Get(w, AvailableSlots)), Num(1)).n)

\* workers.reduce((sum, worker) => sum + ..., 0)
RECURSIVE TotalWorkerCapacity(_, _)
TotalWorkerCapacity(workers, sum) ==
  IF workers = <<>> THEN sum
  ELSE TotalWorkerCapacity(Tail(workers), JsAdd(sum, WorkerCapacity(Head(workers))))

\* new Set(tasks.map(t => t.TaskID))
TaskIdsOf(tasks) == {Get(tasks[i], TaskID) : i \in 1..Len(tasks)}

\* new Set(workers.flatMap(w => w.Skills || []))
AllSkillsOf(workers) == Range(FlatMapField(workers, Skills))

\* Math.max(...workers.flatMap(w => w.AvailableSlots || []), 0)
MaxPhaseOf(workers) == MathMax0(FlatMapField(workers, AvailableSlots), Number(0))

\* client.RequestedTaskIDs.filter(taskId => !taskIds.has(taskId))
Unresolved_first(requested, taskIds) ==
  LET NotATask(taskId) == ~SetHas(taskIds, taskId)
      all == SelectSeq(requested, NotATask)
  IN IF all = <<>> THEN <<>> ELSE <<all[1]>>

Unresolved(requested, taskIds) ==
  LET NotATask(taskId) == ~SetHas(taskIds, taskId)
  IN SelectSeq(requested, NotATask)

\* if (invalidTaskIds.length > 0) this.addError('clients', index, ...)
ReportUnresolved(index, invalidTaskIds) ==
  When(Len(invalidTaskIds) > 0,
       Err("clients", index, RequestedTaskIDs,
           Msg("Referenced task IDs not found: ", JoinValues(invalidTaskIds)),
           Arr(invalidTaskIds), NoSuggestion))

\* clients.forEach((client, index) => { if (client.RequestedTaskIDs && ...) })
RECURSIVE ClientReferenceChecks(_, _, _)
ClientReferenceChecks(clients, index, taskIds) ==
  IF index >= Len(clients) THEN <<>>
  ELSE LET requested == Get(clients[index + 1], RequestedTaskIDs)
       IN (IF Truthy(requested) /\ IsArray(requested)
           THEN ReportUnresolved(index, Unresolved(requested.a, taskIds))
           ELSE <<>>)
          \o ClientReferenceChecks(clients, index + 1, taskIds)

\* uncovered skills reported through addError
ReportUncovered_asError(index, uncoveredSkills) ==
  When(Len(uncoveredSkills) > 0,
       Err("tasks", index, RequiredSkills,
           Msg("No workers have these required skills: ",
               JoinValues(uncoveredSkills)),
           Arr(uncoveredSkills), NoSuggestion))

\* if (uncoveredSkills.length > 0) this.addWarning('tasks', index, ...)
ReportUncovered(index, uncoveredSkills) ==
  When(Len(uncoveredSkills) > 0,
       Warn("tasks", index, RequiredSkills,
            Msg("No workers have these required skills: ",
                JoinValues(uncoveredSkills)),
            Arr(uncoveredSkills), NoSuggestion))

\* tasks.forEach((task, index) => { if (task.RequiredSkills && ...) })
RECURSIVE SkillCoverageChecks(_, _, _)
SkillCoverageChecks(tasks, index, allSkills) ==
  IF index >= Len(tasks) THEN <<>>
  ELSE LET required == Get(tasks[index + 1], RequiredSkills)
           Uncovered(skill) == ~SetHas(allSkills, skill)
       IN (IF Truthy(required) /\ IsArray(required)
           THEN ReportUncovered(index, SelectSeq(required.a, Uncovered))
           ELSE <<>>)
          \o SkillCoverageChecks(tasks, index + 1, allSkills)

\* if (invalidPhases.length > 0) this.addWarning('tasks', index, ...)
ReportLatePhases(index, invalidPhases) ==
  When(Len(invalidPhases) > 0,
       Warn("tasks", index, PreferredPhases,
            Msg("Some preferred phases exceed worker availability: ",
                JoinValues(invalidPhases)),
            Arr(invalidPhases), NoSuggestion))

\* tasks.forEach((task, index) => { if (task.PreferredPhases && ...) })
RECURSIVE PhaseChecks(_, _, _)
PhaseChecks(tasks, index, maxPhase) ==
  IF index >= Len(tasks) THEN <<>>
  ELSE LET phases == Get(tasks[index + 1], PreferredPhases)
           TooLate(phase) == JsGt(phase, maxPhase)
       IN (IF Truthy(phases) /\ IsArray(phases)
           THEN ReportLatePhases(index, SelectSeq(phases.a, TooLate))
           ELSE <<>>)
          \o PhaseChecks(tasks, index + 1, maxPhase)

\* the warning given already when the two totals are equal
WorkloadCheck_inclusive(totalTaskDuration, totalWorkerCapacity) ==
  When(~JsLt(totalTaskDuration, ToNumber(totalWorkerCapacity)),
       Warn("tasks", 0, Duration,
            Msg("Total task duration may exceed total worker capacity", <<>>),
            Str(StringOf(totalTaskDuration)
                \o <<" ","h","r","s"," ","v","s"," ">>
                \o StringOf(totalWorkerCapacity)
                \o <<" ","h","r","s"," ","c","a","p","a","c","i","t","y">>),
            NoSuggestion))

\* if (totalTaskDuration > totalWorkerCapacity) this.addWarning('tasks', 0, ...)
WorkloadCheck(totalTaskDuration, totalWorkerCapacity) ==
  When(JsGt(totalTaskDuration, ToNumber(totalWorkerCapacity)),
       Warn("tasks", 0, Duration,
            Msg("Total task duration may exceed total worker capacity", <<>>),
            Str(StringOf(totalTaskDuration)
                \o <<" ","h","r","s"," ","v","s"," ">>
                \o StringOf(totalWorkerCapacity)
                \o <<" ","h","r","s"," ","c","a","p","a","c","i","t","y">>),
            NoSuggestion))

\* the calls of validateCrossReferences, in program order
CrossReferenceChecks(allData) ==
  ClientReferenceChecks(allData.clients, 0, TaskIdsOf(allData.tasks))
  \o SkillCoverageChecks(allData.tasks, 0, AllSkillsOf(allData.workers))
  \o PhaseChecks(allData.tasks, 0, MaxPhaseOf(allData.workers))
  \o WorkloadCheck(TotalTaskDuration(allData.tasks, Num(0)),
                   TotalWorkerCapacity(allData.workers, Num(0)))

validateCrossReferences(inst, allData) == Emit(inst, CrossReferenceChecks(allData))

\* this.errors = []; this.warnings = []  -- two new arrays
ResetAccumulator_inplace(inst) ==
  [inst EXCEPT !.heap[inst.errors] = <<>>, !.heap[inst.warnings] = <<>>]

\* a pass that starts on the arrays of the pass before
ResetAccumulator_kept(inst) == inst

ResetAccumulator(inst) ==
  [inst EXCEPT !.heap = @ \o << <<>>, <<>> >>,
               !.errors = Len(inst.heap) + 1,
               !.warnings = Len(inst.heap) + 2]

\* e => e.type === 'error'
IsErrorType(e) == e.type = "error"

\* switch (dataType) { case 'clients': this.validateClients(data) ... }
OwnPass(fresh, data, dataType) ==
  CASE dataType = "clients" -> validateClients(fresh, data)
    [] dataType = "workers" -> validateWorkers(fresh, data)
    [] OTHER -> validateTasks(fresh, data)

\* if (allData) { this.validateCrossReferences(allData) }
CrossPass(own, allData) ==
  IF allData.present THEN validateCrossReferences(own, allData) ELSE own

\* validRows, confidence and the returned object, once the passes are done
ResultOf(done, data) ==
  LET totalErrors == Len(done.heap[done.errors])
      totalWarnings == Len(done.heap[done.warnings])
      validRows == Len(data) - Len(SelectSeq(done.heap[done.errors], IsErrorType))
      confidence == IF Len(data) > 0 THEN RoundDiv(validRows * 100, Len(data))
                    ELSE 100
  IN [inst |-> done,
      result |-> ValidationOf(totalErrors = 0, done.errors, done.warnings,
                              confidence, totalErrors, totalWarnings,
                              validRows, Len(data))]

\* validate(data, dataType, allData): the instance after the call and the
\* returned result, whose errors and warnings are the instance's arrays
validate(inst, data, dataType, allData) ==
  ResultOf(CrossPass(OwnPass(ResetAccumulator(inst), data, dataType), allData),
           data)

\* Math.max(1, Math.min(5, Math.round(n))) for a whole number n
ClampPriority_unclamped(n) == n

ClampPriority(n) == Max2(1, Min2(5, n))

\* generateAutoFix(error)
generateAutoFix(error) ==
  LET value == error.value
      pieces == TrimAll(split(value.s, ","))
  IN CASE error.column = PriorityLevel ->
            IF IsNumber(value)
            THEN (IF IsNaNValue(value) THEN NaNValue
                  ELSE Num(ClampPriority(value.n)))
            ELSE Num(3)
       [] error.column = Duration ->
            IF IsNumber(value) /\ JsLe(value, Number(0)) THEN Num(1) ELSE value
       [] error.column = MaxLoadPerPhase ->
            IF IsNumber(value) /\ JsLe(value, Number(0)) THEN Num(8) ELSE value
       [] error.column \in {RequestedTaskIDs, Skills, RequiredSkills} ->
            IF IsString(value) THEN StrArr(SelectSeq(pieces, NonEmpty))
            ELSE Arr(<<>>)
       [] error.column \in {AvailableSlots, PreferredPhases} ->
            IF IsString(value) THEN Arr(ParseIntPieces(split(value.s, ","), <<>>))
            ELSE Arr(<<>>)
       [] OTHER -> value

(***************************************************************************)
(* Home (page.tsx): the state of the page and its two handlers             *)
(***************************************************************************)
\* useState({ clients: [], workers: [], tasks: [] })
InitialFileData == [dataType \in DataTypes |-> <<>>]

\* useState of validationResults: one empty result per kind
InitialValidationResults ==
  [dataType \in DataTypes |->
     ValidationOf(TRUE, EmptyArray, EmptyArray, 100, 0, 0, 0, 0)]

\* the allData object built from the three collections
AllDataOf(collections) ==
  AllData(collections["clients"], collections["workers"], collections["tasks"])

\* a call and what it returned, added to the record of calls
Recorded(v, call, r) ==
  [validator |-> r.inst,
   calls |-> Append(v.calls, call),
   results |-> Append(v.results, r.result)]

\* dataValidator.validate(...) called from a handler: v holds the instance
\* and the record of calls and results
CallValidate(v, data, dataType, allData) ==
  Recorded(v, [data |-> data, dataType |-> dataType, allData |-> allData],
           validate(v.validator, data, dataType, allData))

\* setValidationResults(prev => ({ ...prev, [entity]: validation })) with
\* the result of the call that v has just recorded
SetValidation(pg, entity, v) ==
  [pg EXCEPT !.v = v, !.validationResults[entity] = v.results[Len(v.results)]]

\* Object.keys(allData).forEach(entityType => { if (allData[entity].length > 0)
\*   setValidationResults(... validate(allData[entity], entity, allData)) })
RECURSIVE RevalidateEach(_, _, _)
RevalidateRest(next, allData, kinds) ==
  Strict(next, RevalidateEach(next, allData, kinds))

RevalidateEach(pg, allData, kinds) ==
  IF kinds = <<>> THEN pg
  ELSE RevalidateRest(
         IF Len(allData[Head(kinds)]) > 0
         THEN SetValidation(pg, Head(kinds),
                            CallValidate(pg.v, allData[Head(kinds)], Head(kinds),
                                         allData))
         ELSE pg,
         allData, Tail(kinds))

\* allData.clients.length > 0 || allData.workers.length > 0 || allData.tasks.length > 0
AnyLoaded(allData) == \E k \in DataTypes : Len(allData[k]) > 0

\* if (allData.clients.length > 0 || ...) { Object.keys(allData).forEach(...) }
CrossValidate(stored, allData) ==
  IF AnyLoaded(allData)
  THEN RevalidateEach(stored, allData, <<"clients", "workers", "tasks">>)
  ELSE stored

\* handleFileProcessed(result, dataType) of the render whose fileData is
\* closure; pg is [fileData, validationResults, v]
handleFileProcessed(pg, result, dataType, closure) ==
  IF ~result.success THEN pg
  ELSE CrossValidate([pg EXCEPT !.fileData[dataType] = result.data,
                                !.validationResults[dataType] = result.validation],
                     AllDataOf([closure EXCEPT ![dataType] = result.data]))

\* handleDataChange(newData, dataType) of the render whose fileData is closure
handleDataChange(pg, newData, dataType, closure) ==
  SetValidation([pg EXCEPT !.fileData[dataType] = newData], dataType,
                CallValidate(pg.v, newData, dataType,
                             AllDataOf([closure EXCEPT ![dataType] = newData])))

(***************************************************************************)
(* Specification SpecMap: mapHeaders applied to bounded header lists       *)
(***************************************************************************)
\* incoming headers: direct matches, fuzzy matches, headers two fields
\* compete for, a header at exactly 0.6, headers that normalise to ''
HeaderPool ==
  { <<"c","l","i","e","n","t","_","i","d">>,
    <<"N","a","m","e">>,
    <<"p","r","i","o","r","i","t","y">>,
    <<"i","d">>,
    <<"c","a","p","a","c","i","t","y">>,
    <<"S","k","i","l","l","s">>,
    <<"c","o","m","p","e","t","e","n","c","i","e","s">>,
    <<"t","e","s","t","s">>,
    <<"t","y","p","e">>,
    <<"_","_">>,
    <<>> }

\* the parts of the state a specification leaves alone stay as constructed
\* no similarity has been asked for
NotScored == [returned |-> FALSE, score |-> <<0, 1>>]

SimIdle == simPair = << <<>>, <<>> >> /\ simScore = NotScored

HeadersIdle == mhHeaders = <<>> /\ mhType = "clients" /\ mhResult = NotCalled

MapIdle == HeadersIdle /\ SimIdle

FileIdle == pfFile = NoFile /\ pfType = "clients" /\ pfResult = NoFileResult

ValIdle == validator = NewValidator /\ vCalls = <<>> /\ vResults = <<>>

PageIdle ==
  /\ activeTab = "upload"
  /\ fileData = InitialFileData
  /\ validationResults = InitialValidationResults
  /\ uploadedFiles = [dataType \in DataTypes |-> FALSE]
  /\ isProcessing = [dataType \in DataTypes |-> FALSE]
  /\ uploadError = [dataType \in DataTypes |-> ""]
  /\ inFlight = <<>>
  /\ events = 0

\* DataGrid as useState constructs its hooks; no handler has run
NoHandler == [op |-> "", row |-> 0, column |-> <<>>]

GridHooksIdle ==
  /\ searchTerm = <<>>
  /\ sortConfig = <<>>
  /\ editingCell = <<>>
  /\ editValue = <<>>
  /\ gLast = NoHandler
  /\ gEvents = 0

GridIdle == gData = <<>> /\ GridHooksIdle

\* ExportPanel as useState constructs its hooks; nothing downloaded
InitialExportConfig ==
  [includeValidationReport |-> TRUE, includeBusinessRules |-> TRUE,
   format |-> "xlsx", onlyValidData |-> FALSE]

ExportHooksIdle ==
  /\ exportConfig = InitialExportConfig
  /\ isExporting = FALSE
  /\ exportStatus = ""
  /\ downloads = <<>>

ExportIdle == exData = InitialFileData /\ exRules = <<>> /\ ExportHooksIdle

InitMap ==
  /\ mhHeaders \in SeqsUpTo(HeaderPool, MaxHeaders)
  /\ mhType \in DataTypes
  /\ mhResult = NotCalled
  /\ SimIdle /\ FileIdle /\ ValIdle /\ PageIdle /\ GridIdle /\ ExportIdle

MapHeadersCall ==
  /\ mhResult = NotCalled
  /\ mhResult' = [returned |-> TRUE, mapping |-> mapHeaders(mhHeaders, mhType)]
  /\ UNCHANGED <<mhHeaders, mhType, simPair, simScore, pfVars, valVars, pageVars,
                 gridVars, exportVars>>

NextMap == MapHeadersCall

SpecMap == InitMap /\ [][NextMap]_vars

(***************************************************************************)
(* Properties of mapHeaders                                                *)
(***************************************************************************)
MapReturned == mhResult.returned

mhMapping == mhResult.mapping

\* the score the mapper gives a header for a field: 1 for a normalised
\* exact match with an alternative, else the maximum similarity
FieldScore(header, alternatives) ==
  IF InSeq(alternatives, normalize(header)) THEN <<1, 1>>
  ELSE LET scores == {calculateSimilarity(header, alternatives[k]) :
                        k \in 1..Len(alternatives)}
       IN CHOOSE s \in scores : \A u \in scores : RatGe(s, u)

\* the headers still unclaimed when the k-th field of the schema is processed
UnclaimedAt(k) ==
  LET schema == HEADER_MAPPINGS[mhType]
      earlier == {mhMapping[schema[j][1]] :
                    j \in {i \in 1..(k - 1) : schema[i][1] \in DOMAIN mhMapping}}
  IN Range(mhHeaders) \ earlier

\* C1: the values of the mapping mapHeaders returns are pairwise distinct:
\* no incoming header is assigned to two canonical fields.
C1_NoHeaderClaimedTwice ==
  MapReturned =>
    \A f, g \in DOMAIN mhMapping : f # g => mhMapping[f] # mhMapping[g]

\* C1 witness: a header that two fields accept (score above 0.6 for both)
\* was mapped, and only one field holds it.
C1_Witness ==
  /\ MapReturned
  /\ \E j, k \in 1..Len(HEADER_MAPPINGS[mhType]) :
       /\ j < k
       /\ HEADER_MAPPINGS[mhType][j][1] \in DOMAIN mhMapping
       /\ LET h == mhMapping[HEADER_MAPPINGS[mhType][j][1]]
          IN AboveThreshold(FieldScore(h, HEADER_MAPPINGS[mhType][k][2]))

\* C2: a canonical field is in the mapping only if the header it claimed
\* scores strictly above 0.6 for it, and a field whose best unclaimed
\* header scores 0.6 or less is absent from the mapping.
C2_ClaimOnlyAboveThreshold ==
  MapReturned =>
    \A k \in 1..Len(HEADER_MAPPINGS[mhType]) :
      LET f == HEADER_MAPPINGS[mhType][k][1]
          alts == HEADER_MAPPINGS[mhType][k][2]
      IN /\ f \in DOMAIN mhMapping =>
              RatGt(FieldScore(mhMapping[f], alts), <<3, 5>>)
         /\ (\A h \in UnclaimedAt(k) : ~RatGt(FieldScore(h, alts), <<3, 5>>))
              => f \notin DOMAIN mhMapping

\* C2 witness: a field whose best unclaimed header scores exactly 0.6 was
\* left out of the mapping.
C2_Witness ==
  /\ MapReturned
  /\ \E k \in 1..Len(HEADER_MAPPINGS[mhType]) :
       /\ HEADER_MAPPINGS[mhType][k][1] \notin DOMAIN mhMapping
       /\ \E h \in UnclaimedAt(k) :
            RatEq(FieldScore(h, HEADER_MAPPINGS[mhType][k][2]), <<3, 5>>)
       /\ \A h \in UnclaimedAt(k) :
            ~RatGt(FieldScore(h, HEADER_MAPPINGS[mhType][k][2]), <<3, 5>>)

\* h is the single best header of the set for these alternatives: it can be
\* claimed (its name is not empty), scores above 0.6 and above every other
StrictBest(h, available, alts) ==
  /\ h \in available
  /\ h # <<>>
  /\ RatGt(FieldScore(h, alts), <<3, 5>>)
  /\ \A o \in available \ {h} : RatGt(FieldScore(h, alts), FieldScore(o, alts))

\* C3: fields are served in schema order: the header a field claims is one
\* no earlier field claimed and has the highest score among the headers
\* unclaimed at that point, and a field whose single best unclaimed header
\* scores above 0.6 claims it; so a header two fields want goes to the
\* field that is earlier in the schema.
C3_BestUnclaimedInSchemaOrder ==
  MapReturned =>
    \A k \in 1..Len(HEADER_MAPPINGS[mhType]) :
      LET f == HEADER_MAPPINGS[mhType][k][1]
          alts == HEADER_MAPPINGS[mhType][k][2]
      IN /\ f \in DOMAIN mhMapping =>
              /\ mhMapping[f] \in UnclaimedAt(k)
              /\ \A h \in UnclaimedAt(k) :
                   RatGe(FieldScore(mhMapping[f], alts), FieldScore(h, alts))
         /\ \A h \in UnclaimedAt(k) :
              StrictBest(h, UnclaimedAt(k), alts) =>
                f \in DOMAIN mhMapping /\ mhMapping[f] = h

\* C3 witness: one header is the single best header of two fields, and the
\* field earlier in the schema holds it.
C3_Witness ==
  /\ MapReturned
  /\ \E j, k \in 1..Len(HEADER_MAPPINGS[mhType]) :
       /\ j < k
       /\ HEADER_MAPPINGS[mhType][j][1] \in DOMAIN mhMapping
       /\ LET h == mhMapping[HEADER_MAPPINGS[mhType][j][1]]
          IN /\ StrictBest(h, UnclaimedAt(j), HEADER_MAPPINGS[mhType][j][2])
             /\ StrictBest(h, UnclaimedAt(j), HEADER_MAPPINGS[mhType][k][2])
             /\ Cardinality(Range(mhHeaders)) > 1

(***************************************************************************)
(* Specification SpecFile: processFile applied to bounded decoded files    *)
(***************************************************************************)
\* headers of the decoded files: one the workers schema accepts directly,
\* an alternative name of the same field, and one no schema accepts
FileHeaderPool ==
  { <<"S","k","i","l","l","s">>,
    <<"c","o","m","p","e","t","e","n","c","i","e","s">>,
    <<"n","o","t","e","s">> }

\* raw cells: a text with surrounding blanks and a number cell
RawPool == { Str(<<" ","a",","," ","b">>), Num(7) }

\* the files processFile accepts: CSV files, and the two spreadsheet kinds
FileShells ==
  { [ext |-> "csv", tooLarge |-> FALSE, parseError |-> FALSE] }

SheetShells ==
  { [ext |-> "xlsx", tooLarge |-> FALSE, parseError |-> FALSE],
    [ext |-> "xls", tooLarge |-> FALSE, parseError |-> FALSE] }

\* the three rejections: extension, size, decoder failure
RejectedShells ==
  { [ext |-> "txt", tooLarge |-> FALSE, parseError |-> FALSE],
    [ext |-> "csv", tooLarge |-> TRUE, parseError |-> FALSE],
    [ext |-> "xls", tooLarge |-> FALSE, parseError |-> TRUE] }

\* sequences of distinct headers
DistinctSeqs(S, n) ==
  {s \in SeqsUpTo(S, n) : \A i, j \in 1..Len(s) : i # j => s[i] # s[j]}

\* decoded rows under the headers hs: the first row has a cell for every
\* header, a later row may lack cells (row[header] is then undefined)
RowsOf(hs) ==
  UNION { {r \in [1..k -> [Range(hs) -> RawPool \cup {Undefined}]] :
             k > 0 => \A h \in Range(hs) : r[1][h] # Undefined}
          : k \in 0..MaxFileRows }

\* a CSV file carries any decoded content, a spreadsheet any one-column
\* content (both decoders hand processFile the same kind of rows); a
\* rejected file's content is never read
Files ==
  UNION { UNION {
    { [ext |-> sh.ext, tooLarge |-> sh.tooLarge, parseError |-> sh.parseError,
       headers |-> hs, rows |-> rs] : rs \in RowsOf(hs) }
    : hs \in DistinctSeqs(FileHeaderPool, MaxFileHeaders) \ {<<>>} }
    : sh \in FileShells }
  \cup
  UNION { UNION {
    { [ext |-> sh.ext, tooLarge |-> sh.tooLarge, parseError |-> sh.parseError,
       headers |-> hs, rows |-> rs] : rs \in RowsOf(hs) }
    : hs \in DistinctSeqs(FileHeaderPool, 1) \ {<<>>} }
    : sh \in SheetShells }
  \cup
  { [ext |-> sh.ext, tooLarge |-> sh.tooLarge, parseError |-> sh.parseError,
     headers |-> <<>>, rows |-> <<>>] : sh \in RejectedShells }

InitFile ==
  /\ pfFile \in Files
  /\ pfType \in DataTypes
  /\ pfResult = NoFileResult
  /\ MapIdle /\ ValIdle /\ PageIdle /\ GridIdle /\ ExportIdle

ProcessFileCall ==
  /\ ~pfResult.returned
  /\ pfResult' = [returned |-> TRUE, result |-> processFile(pfFile, pfType)]
  /\ UNCHANGED <<pfFile, pfType, mhVars, gridVars, exportVars, valVars, pageVars>>

NextFile == ProcessFileCall

SpecFile == InitFile /\ [][NextFile]_vars

(***************************************************************************)
(* Properties of processFile                                               *)
(***************************************************************************)
FileProcessed == pfResult.returned /\ pfResult.result.success

\* the headers of the processed file that no canonical field claimed
UnclaimedHeaders ==
  {h \in Range(pfFile.headers) :
     \A f \in DOMAIN pfResult.result.mappedHeaders :
        pfResult.result.mappedHeaders[f] # h}

\* C4: every incoming header no canonical field claimed is a column of each
\* cleaned row, under its own name, holding the row's raw cell unchanged.
C4_UnclaimedHeadersPassThrough ==
  FileProcessed =>
    /\ Len(pfResult.result.data) = Len(pfFile.rows)
    /\ \A r \in 1..Len(pfFile.rows) : \A h \in UnclaimedHeaders :
         /\ h \in DOMAIN pfResult.result.data[r]
         /\ pfResult.result.data[r][h] = Get(pfFile.rows[r], h)

\* C4 witness: a processed file with a mapped header and an unclaimed
\* header whose raw cell coercion would have changed.
C4_Witness ==
  /\ FileProcessed
  /\ DOMAIN pfResult.result.mappedHeaders # {}
  /\ \E r \in 1..Len(pfFile.rows) : \E h \in UnclaimedHeaders :
       /\ convertValue(pfFile.rows[r][h], h) # pfFile.rows[r][h]
       /\ pfResult.result.data[r][h] = pfFile.rows[r][h]

(***************************************************************************)
(* Collections handed to the validator                                     *)
(***************************************************************************)
\* short texts
T1 == Str(<<"T","1">>)

T8 == Str(<<"T","8">>)

T9 == Str(<<"T","9">>)

NameAb == Str(<<"A","b">>)

NameAbc == Str(<<"A","b","c">>)

\* client rows: a clean one; one repeating its identifier, with a level
\* above the range and an unknown task; one without identifier and name,
\* with a level below the range and two unknown tasks among three; a clean
\* one with another identifier and no requested tasks
ClientRowPool ==
  { (ClientID :> Str(<<"C","1">>)) @@ (ClientName :> NameAb)
      @@ (PriorityLevel :> Num(3)) @@ (RequestedTaskIDs :> Arr(<<T1>>)),
    (ClientID :> Str(<<"C","1">>)) @@ (ClientName :> NameAb)
      @@ (PriorityLevel :> Num(7)) @@ (RequestedTaskIDs :> Arr(<<T9>>)),
    (ClientID :> Null) @@ (ClientName :> Null)
      @@ (PriorityLevel :> Num(-3)) @@ (RequestedTaskIDs :> Arr(<<T9, T1, T8>>)),
    (ClientID :> Str(<<"C","2">>)) @@ (ClientName :> NameAb)
      @@ (PriorityLevel :> Num(2)) @@ (RequestedTaskIDs :> Null) }

\* task rows: a clean one; one repeating its identifier, with a zero
\* duration; one needing a skill and a phase that may be missing
TaskRowPool ==
  { (TaskID :> T1) @@ (TaskName :> NameAbc) @@ (Category :> NameAb)
      @@ (Duration :> Num(2)) @@ (RequiredSkills :> Arr(<<Str(<<"a">>)>>))
      @@ (PreferredPhases :> Arr(<<Num(1)>>)),
    (TaskID :> T1) @@ (TaskName :> NameAbc) @@ (Category :> NameAb)
      @@ (Duration :> Num(0)) @@ (RequiredSkills :> Arr(<<>>))
      @@ (PreferredPhases :> Null),
    (TaskID :> T9) @@ (TaskName :> NameAb) @@ (Category :> NameAb)
      @@ (Duration :> Num(5)) @@ (RequiredSkills :> Arr(<<Str(<<"z">>)>>))
      @@ (PreferredPhases :> Arr(<<Num(4)>>)) }

\* worker rows: a clean one; one repeating its identifier, with an empty
\* skill list; one that has no Skills at all
WorkerRowPool ==
  { (WorkerID :> Str(<<"W","1">>)) @@ (WorkerName :> NameAb)
      @@ (Skills :> Arr(<<Str(<<"a">>)>>))
      @@ (AvailableSlots :> Arr(<<Num(1), Num(2)>>))
      @@ (MaxLoadPerPhase :> Num(2)),
    (WorkerID :> Str(<<"W","1">>)) @@ (WorkerName :> Str(<<"B">>))
      @@ (Skills :> Arr(<<>>)) @@ (AvailableSlots :> Null)
      @@ (MaxLoadPerPhase :> Num(0)),
    (WorkerID :> Str(<<"W","2">>)) @@ (WorkerName :> NameAb)
      @@ (AvailableSlots :> Arr(<<Num(1)>>)) @@ (MaxLoadPerPhase :> Num(1)) }

RowPool(dataType) ==
  CASE dataType = "clients" -> ClientRowPool
    [] dataType = "workers" -> WorkerRowPool
    [] OTHER -> TaskRowPool

\* the collections of the other kinds held by the page when one is validated
SiblingPool(dataType) ==
  CASE dataType = "clients" ->
         { <<>> } \cup { <<r>> : r \in {c \in ClientRowPool : c[PriorityLevel] = Num(7)} }
           \cup { <<r>> : r \in {c \in ClientRowPool : c[ClientID] = Null} }
    [] dataType = "workers" ->
         { <<>> } \cup { <<r>> : r \in {w \in WorkerRowPool : Get(w, Skills) = Arr(<<Str(<<"a">>)>>)} }
    [] OTHER ->
         { <<>> } \cup { <<r>> : r \in {t \in TaskRowPool : t[Duration] = Num(2)} }
           \cup { <<r>> : r \in {t \in TaskRowPool : t[TaskID] = T9} }

\* the arguments of one validate call: without allData (the upload
\* component), or with allData holding data under its own kind (the page)
CallsOf(dataType, data) ==
  { [data |-> data, dataType |-> dataType, allData |-> NoAllData] }
  \cup
  { [data |-> data, dataType |-> dataType,
     allData |-> AllData(IF dataType = "clients" THEN data ELSE c,
                         IF dataType = "workers" THEN data ELSE w,
                         IF dataType = "tasks" THEN data ELSE t)] :
      c \in SiblingPool("clients"), w \in SiblingPool("workers"),
      t \in SiblingPool("tasks") }

ValidateInputs ==
  UNION { UNION { CallsOf(dataType, data) : data \in SeqsUpTo(RowPool(dataType), MaxRows) }
          : dataType \in DataTypes }

\* the inputs of the call sequences: one-row collections; the page's calls
\* among them validate clients against one clean task and no workers
SmallInputs ==
  {c \in UNION { UNION { CallsOf(dataType, <<row>>) : row \in RowPool(dataType) }
                 : dataType \in DataTypes } :
     /\ c.dataType = "clients" => c.data[1][RequestedTaskIDs] # Arr(<<T1>>)
     /\ c.dataType = "tasks" => c.data[1][Duration] = Num(0)
     /\ c.dataType = "workers" => Get(c.data[1], Skills) = Arr(<<>>)
     /\ c.allData.present =>
          /\ c.dataType = "clients"
          /\ c.allData.workers = <<>>
          /\ Len(c.allData.tasks) = 1 /\ c.allData.tasks[1][TaskID] = T1}

(***************************************************************************)
(* Specification SpecPass: one validate call on bounded collections        *)
(***************************************************************************)
\* dataValidator.validate(data, dataType, allData) on the shared instance
ValidateCall(call) ==
  LET r == validate(validator, call.data, call.dataType, call.allData)
  IN /\ validator' = r.inst
     /\ vResults' = Append(vResults, r.result)

InitPass ==
  /\ validator = NewValidator
  /\ vCalls \in { <<c>> : c \in ValidateInputs }
  /\ vResults = <<>>
  /\ MapIdle /\ FileIdle /\ PageIdle /\ GridIdle /\ ExportIdle

ValidatePending ==
  /\ Len(vResults) < Len(vCalls)
  /\ ValidateCall(vCalls[Len(vResults) + 1])
  /\ UNCHANGED <<vCalls, mhVars, gridVars, exportVars, pfVars, pageVars>>

NextPass == ValidatePending

SpecPass == InitPass /\ [][NextPass]_vars

(***************************************************************************)
(* Specification SpecVal: a sequence of validate calls on the instance     *)
(***************************************************************************)
InitVal == ValIdle /\ MapIdle /\ FileIdle /\ PageIdle /\ GridIdle /\ ExportIdle

ValidateNext ==
  /\ Len(vCalls) < MaxCalls
  /\ \E call \in SmallInputs :
       /\ vCalls' = Append(vCalls, call)
       /\ ValidateCall(call)
  /\ UNCHANGED <<mhVars, gridVars, exportVars, pfVars, pageVars>>

NextVal == ValidateNext

SpecVal == InitVal /\ [][NextVal]_vars

(***************************************************************************)
(* Properties of validate                                                  *)
(***************************************************************************)
\* the diagnostics the k-th returned result refers to, as they are now
ErrorsOf(k) == validator.heap[vResults[k].errors]

WarningsOf(k) == validator.heap[vResults[k].warnings]

\* a diagnostic without its generated identifier
Content(d) ==
  [type |-> d.type, severity |-> d.severity, entity |-> d.entity,
   row |-> d.row, column |-> d.column, message |-> d.message,
   value |-> d.value, suggestion |-> d.suggestion,
   autoFixAvailable |-> d.autoFixAvailable]

Contents(ds) == [i \in 1..Len(ds) |-> Content(ds[i])]

\* the diagnostics a call produces on an instance that has validated
\* nothing before
AloneErrors(call) ==
  LET r == validate(NewValidator, call.data, call.dataType, call.allData)
  IN r.inst.heap[r.result.errors]

AloneWarnings(call) ==
  LET r == validate(NewValidator, call.data, call.dataType, call.allData)
  IN r.inst.heap[r.result.warnings]

\* every returned result holds the diagnostics of its own call
OwnDiagnostics ==
  \A k \in 1..Len(vResults) :
    /\ Contents(ErrorsOf(k)) = Contents(AloneErrors(vCalls[k]))
    /\ Contents(WarningsOf(k)) = Contents(AloneWarnings(vCalls[k]))
    /\ vResults[k].summary.totalErrors = Len(ErrorsOf(k))
    /\ vResults[k].summary.totalWarnings = Len(WarningsOf(k))

\* a step leaves the arrays of the results returned before it as they were
EarlierResultsKept ==
  \A k \in 1..Len(vResults) :
    /\ vResults'[k] = vResults[k]
    /\ validator'.heap[vResults[k].errors] = ErrorsOf(k)
    /\ validator'.heap[vResults[k].warnings] = WarningsOf(k)

\* C5: in any sequence of validate calls on the shared instance, every
\* returned result holds exactly the diagnostics its own call produces
\* (the same as on an instance that validated nothing before), and no later
\* call changes the errors and warnings of a result returned earlier.
C5_ResultsAreIndependent == []OwnDiagnostics /\ [][EarlierResultsKept]_vars

\* two calls returned different diagnostics, the first of them some errors
C5_Witness ==
  /\ Len(vResults) >= 2
  /\ ErrorsOf(1) # <<>>
  /\ WarningsOf(2) # <<>>
  /\ Contents(ErrorsOf(1)) # Contents(ErrorsOf(2))

\* the rows of the k-th validated collection that no error of the result
\* is located at
RowsWithoutErrors(k) ==
  Cardinality({i \in 1..Len(vCalls[k].data) :
                 \A n \in 1..Len(ErrorsOf(k)) :
                   ~(/\ ErrorsOf(k)[n].entity = vCalls[k].dataType
                     /\ ErrorsOf(k)[n].row = i - 1)})

\* C6: the returned confidence is round(100 * rows_without_errors /
\* total_rows), a row with several errors counting once, and 100 for an
\* empty collection.
C6_ConfidenceCountsRowsWithoutErrors ==
  \A k \in 1..Len(vResults) :
    vResults[k].confidence =
      IF Len(vCalls[k].data) = 0 THEN 100
      ELSE RoundDiv(100 * RowsWithoutErrors(k), Len(vCalls[k].data))

\* the duplicate-identifier errors of the k-th result at row index j
DuplicateErrorsAt(k, j) ==
  LET IsDuplicateError(e) ==
        /\ e.entity = vCalls[k].dataType
        /\ e.row = j
        /\ e.column = IdField(vCalls[k].dataType)
        /\ e.message.text \in {"Duplicate ClientID: ", "Duplicate WorkerID: ",
                               "Duplicate TaskID: "}
  IN SelectSeq(ErrorsOf(k), IsDuplicateError)

\* the identifier of row index j of the k-th validated collection
IdAt(k, j) == Get(vCalls[k].data[j + 1], IdField(vCalls[k].dataType))

\* an earlier row carries the same (present) identifier
OccursEarlier(k, j) ==
  /\ Truthy(IdAt(k, j))
  /\ \E i \in 0..(j - 1) : IdAt(k, i) = IdAt(k, j)

\* C7: within one pass, exactly the second and later occurrences of an
\* identifier get a duplicate-identifier error, one each, naming the value
\* (so a value occurring k times gets k-1 of them); the collection keeps
\* all its records.
C7_DuplicatesAtLaterOccurrences ==
  \A k \in 1..Len(vResults) :
    /\ vResults[k].summary.totalRows = Len(vCalls[k].data)
    /\ \A j \in 0..(Len(vCalls[k].data) - 1) :
         IF OccursEarlier(k, j)
         THEN /\ Len(DuplicateErrorsAt(k, j)) = 1
              /\ DuplicateErrorsAt(k, j)[1].message.arg = StringOf(IdAt(k, j))
              /\ DuplicateErrorsAt(k, j)[1].value = IdAt(k, j)
         ELSE DuplicateErrorsAt(k, j) = <<>>

\* three records, the first and the third sharing an identifier that the
\* second does not carry: one duplicate error, at the third
C7_Witness ==
  /\ Len(vResults) = 1
  /\ Len(vCalls[1].data) = 3
  /\ OccursEarlier(1, 2) /\ ~OccursEarlier(1, 1)
  /\ IdAt(1, 0) = IdAt(1, 2)
  /\ Len(DuplicateErrorsAt(1, 2)) = 1
  /\ DuplicateErrorsAt(1, 0) = <<>> /\ DuplicateErrorsAt(1, 1) = <<>>

\* the errors of the k-th result on PriorityLevel at row index j
PriorityErrorsAt(k, j) ==
  LET IsPriorityError(e) ==
        e.entity = "clients" /\ e.row = j /\ e.column = PriorityLevel
  IN SelectSeq(ErrorsOf(k), IsPriorityError)

\* C8: a client whose numeric PriorityLevel lies outside [1,5] gets one
\* error on PriorityLevel that offers a fix, and the fix computed for that
\* error is the level clamped into [1,5] (7 gives 5, -3 gives 1).
C8_PriorityFixIsClamped ==
  \A k \in 1..Len(vResults) :
    vCalls[k].dataType = "clients" =>
      \A j \in 0..(Len(vCalls[k].data) - 1) :
        LET level == Get(vCalls[k].data[j + 1], PriorityLevel)
        IN (IsNumber(level) /\ ~IsNaNValue(level) /\ (level.n < 1 \/ level.n > 5)) =>
             /\ Len(PriorityErrorsAt(k, j)) = 1
             /\ PriorityErrorsAt(k, j)[1].value = level
             /\ PriorityErrorsAt(k, j)[1].autoFixAvailable
             /\ generateAutoFix(PriorityErrorsAt(k, j)[1])
                  = Num(IF level.n < 1 THEN 1 ELSE 5)

\* one pass over a client with level 7 and a client with level -3: the
\* fixes are 5 and 1
C8_Witness ==
  /\ Len(vResults) = 1
  /\ vCalls[1].dataType = "clients"
  /\ \E i, j \in 0..(Len(vCalls[1].data) - 1) :
       /\ Get(vCalls[1].data[i + 1], PriorityLevel) = Num(7)
       /\ Get(vCalls[1].data[j + 1], PriorityLevel) = Num(-3)
       /\ Len(PriorityErrorsAt(1, i)) = 1 /\ Len(PriorityErrorsAt(1, j)) = 1
       /\ generateAutoFix(PriorityErrorsAt(1, i)[1]) = Num(5)
       /\ generateAutoFix(PriorityErrorsAt(1, j)[1]) = Num(1)

\* the unresolved-reference errors of the k-th result at client row j
ReferenceErrorsAt(k, j) ==
  LET IsReferenceError(e) ==
        /\ e.entity = "clients"
        /\ e.row = j
        /\ e.column = RequestedTaskIDs
        /\ e.message.text = "Referenced task IDs not found: "
  IN SelectSeq(ErrorsOf(k), IsReferenceError)

\* the requested IDs of client row j that are the TaskID of no task
UnresolvedAt(k, j) ==
  LET requested == Get(vCalls[k].allData.clients[j + 1], RequestedTaskIDs)
      tasks == vCalls[k].allData.tasks
      NoSuchTask(id) == \A t \in 1..Len(tasks) : Get(tasks[t], TaskID) # id
  IN IF IsArray(requested) THEN SelectSeq(requested.a, NoSuchTask) ELSE <<>>

\* C9: given the sibling collections, a client row with at least one
\* requested ID that is no TaskID gets exactly one error on
\* RequestedTaskIDs listing all its unresolved IDs, and a client whose IDs
\* all resolve gets none.
C9_OneErrorPerClientWithUnresolvedIds ==
  \A k \in 1..Len(vResults) :
    vCalls[k].allData.present =>
      \A j \in 0..(Len(vCalls[k].allData.clients) - 1) :
        IF UnresolvedAt(k, j) # <<>>
        THEN /\ Len(ReferenceErrorsAt(k, j)) = 1
             /\ ReferenceErrorsAt(k, j)[1].message.arg = JoinValues(UnresolvedAt(k, j))
             /\ ReferenceErrorsAt(k, j)[1].value = Arr(UnresolvedAt(k, j))
        ELSE ReferenceErrorsAt(k, j) = <<>>

\* a client requesting T9, T1 and T8 while only T1 is a task gets one
\* error naming T9 and T8; a client requesting T1 alone gets none
C9_Witness ==
  /\ Len(vResults) = 1
  /\ vCalls[1].allData.present
  /\ \E i, j \in 0..(Len(vCalls[1].allData.clients) - 1) :
       /\ UnresolvedAt(1, i) = <<T9, T8>>
       /\ Len(ReferenceErrorsAt(1, i)) = 1
       /\ ReferenceErrorsAt(1, i)[1].message.arg
            = <<"T","9",","," ","T","8">>
       /\ Get(vCalls[1].allData.clients[j + 1], RequestedTaskIDs) = Arr(<<T1>>)
       /\ ReferenceErrorsAt(1, j) = <<>>

(***************************************************************************)
(* Specification Spec: the page under uploads and grid edits               *)
(***************************************************************************)
\* the files a user uploads: one per kind with a single well-formed row
\* (the client requests task T1, the task needs skill a and phase 1), a
\* text file, and a CSV file the decoder rejects
ClientsFile ==
  [ext |-> "csv", tooLarge |-> FALSE, parseError |-> FALSE,
   headers |-> <<ClientID, ClientName, PriorityLevel, RequestedTaskIDs>>,
   rows |-> << (ClientID :> Str(<<"C","1">>)) @@ (ClientName :> NameAb)
                 @@ (PriorityLevel :> Str(<<"3">>))
                 @@ (RequestedTaskIDs :> T1) >>]

WorkersFile ==
  [ext |-> "csv", tooLarge |-> FALSE, parseError |-> FALSE,
   headers |-> <<WorkerID, WorkerName, Skills, AvailableSlots, MaxLoadPerPhase>>,
   rows |-> << (WorkerID :> Str(<<"W","1">>)) @@ (WorkerName :> NameAb)
                 @@ (Skills :> Str(<<"a">>))
                 @@ (AvailableSlots :> Str(<<"1",",","2">>))
                 @@ (MaxLoadPerPhase :> Str(<<"2">>)) >>]

TasksFile ==
  [ext |-> "xlsx", tooLarge |-> FALSE, parseError |-> FALSE,
   headers |-> <<TaskID, TaskName, Category, Duration, RequiredSkills,
                 PreferredPhases>>,
   rows |-> << (TaskID :> T1) @@ (TaskName :> NameAbc) @@ (Category :> NameAb)
                 @@ (Duration :> Num(2)) @@ (RequiredSkills :> Str(<<"a">>))
                 @@ (PreferredPhases :> Str(<<"[","1","]">>)) >>]

TextFile ==
  [ext |-> "txt", tooLarge |-> FALSE, parseError |-> FALSE,
   headers |-> <<>>, rows |-> <<>>]

BrokenFile ==
  [ext |-> "csv", tooLarge |-> FALSE, parseError |-> TRUE,
   headers |-> <<>>, rows |-> <<>>]

\* an upload: the kind of the component, the file, and what processFile
\* returns for it
Uploads ==
  { [dataType |-> u[1], file |-> u[2], result |-> processFile(u[2], u[1])] :
      u \in { <<"clients", ClientsFile>>, <<"workers", WorkersFile>>,
              <<"tasks", TasksFile>>, <<"clients", TextFile>>,
              <<"tasks", BrokenFile>> } }

Tabs == {"upload"} \cup DataTypes

\* validateFile(file): the message, "" for null
validateFile(file) ==
  IF file.ext \notin {"csv", "xlsx", "xls"}
  THEN "Please upload a CSV or Excel file (.csv, .xlsx, .xls)"
  ELSE IF file.tooLarge THEN "File size must be less than 10MB"
  ELSE ""

Init ==
  /\ PageIdle /\ ValIdle /\ MapIdle /\ FileIdle /\ GridIdle /\ ExportIdle

\* handleFileUpload(file) up to its first await; the run keeps the
\* onFileProcessed of the current render, whose handler closes over fileData
StartUpload(u) ==
  /\ activeTab = "upload"
  /\ events < MaxEvents
  /\ events' = events + 1
  /\ IF validateFile(u.file) # ""
     THEN /\ uploadError' = [uploadError EXCEPT ![u.dataType] = validateFile(u.file)]
          /\ UNCHANGED <<isProcessing, inFlight>>
     ELSE /\ uploadError' = [uploadError EXCEPT ![u.dataType] = ""]
          /\ isProcessing' = [isProcessing EXCEPT ![u.dataType] = TRUE]
          /\ inFlight' = Append(inFlight,
                                [dataType |-> u.dataType, result |-> u.result,
                                 closure |-> fileData, stage |-> "reading",
                                 mounted |-> TRUE])
  /\ UNCHANGED <<activeTab, fileData, validationResults, uploadedFiles,
                 valVars, mhVars, gridVars, exportVars, pfVars>>

\* the file input (or a click on the drop zone): disabled while processing
ChooseFile ==
  \E u \in Uploads : ~isProcessing[u.dataType] /\ StartUpload(u)

\* handleDrop
DropFile ==
  \E u \in Uploads : StartUpload(u)

\* the page's state as the handlers see it
PageNow ==
  [fileData |-> fileData, validationResults |-> validationResults,
   v |-> [validator |-> validator, calls |-> vCalls, results |-> vResults]]

\* the state the handlers leave behind
Store(pg) ==
  /\ fileData' = pg.fileData
  /\ validationResults' = pg.validationResults
  /\ validator' = pg.v.validator
  /\ vCalls' = pg.v.calls
  /\ vResults' = pg.v.results

\* if (result.success) { result.validation = dataValidator.validate(result.data, dataType) }
Validated(i, run, v) ==
  IF run.result.success
  THEN /\ inFlight' = [inFlight EXCEPT
                         ![i].stage = "validated",
                         ![i].result.validation = v.results[Len(v.results)]]
       /\ validator' = v.validator
       /\ vCalls' = v.calls
       /\ vResults' = v.results
  ELSE /\ inFlight' = [inFlight EXCEPT ![i].stage = "validated"]
       /\ UNCHANGED valVars

\* handleFileUpload from processFile to the await before onFileProcessed:
\* a successful result gets validate(result.data, dataType) as validation
ProcessUpload ==
  \E i \in 1..Len(inFlight) :
    /\ inFlight[i].stage = "reading"
    /\ Validated(i, inFlight[i],
                 CallValidate(PageNow.v, inFlight[i].result.data,
                              inFlight[i].dataType, NoAllData))
    /\ UNCHANGED <<activeTab, fileData, validationResults, uploadedFiles,
                   isProcessing, uploadError, events, mhVars, gridVars, exportVars, pfVars>>

\* onFileProcessed(result) of page.tsx, then finally { setIsProcessing(false) },
\* which reaches the component only while it is still the one on the page
Delivered(i, run) ==
  /\ inFlight' = [j \in 1..(Len(inFlight) - 1) |->
                    IF j < i THEN inFlight[j] ELSE inFlight[j + 1]]
  /\ uploadedFiles' = IF run.result.success
                      THEN [uploadedFiles EXCEPT ![run.dataType] = TRUE]
                      ELSE uploadedFiles
  /\ Store(handleFileProcessed(PageNow, run.result, run.dataType, run.closure))
  /\ isProcessing' = IF run.mounted
                     THEN [isProcessing EXCEPT ![run.dataType] = FALSE]
                     ELSE isProcessing

\* the rest of handleFileUpload: onFileProcessed(result), then finally
DeliverUpload ==
  \E i \in 1..Len(inFlight) :
    /\ inFlight[i].stage = "validated"
    /\ Delivered(i, inFlight[i])
    /\ UNCHANGED <<activeTab, uploadError, events, mhVars, gridVars, exportVars, pfVars>>

\* onDataChange(newData) of the grid shown for the active tab
DataChange(newData) ==
  /\ Store(handleDataChange(PageNow, newData, activeTab, fileData))
  /\ events' = events + 1
  /\ UNCHANGED <<activeTab, uploadedFiles, isProcessing, uploadError,
                 inFlight, mhVars, gridVars, exportVars, pfVars>>

\* DataGrid.deleteRow(rowIndex), the grid showing all rows in stored order
DeleteRow ==
  /\ activeTab \in DataTypes
  /\ events < MaxEvents
  /\ \E rowIndex \in 0..(Len(fileData[activeTab]) - 1) :
       DataChange([j \in 1..(Len(fileData[activeTab]) - 1) |->
                     IF j - 1 < rowIndex THEN fileData[activeTab][j]
                     ELSE fileData[activeTab][j + 1]])

\* DataGrid.addRow(): a row with '' in every column of the first row
AddRow ==
  /\ activeTab \in DataTypes
  /\ events < MaxEvents
  /\ LET data == fileData[activeTab]
         columns == IF Len(data) = 0 THEN {} ELSE DOMAIN data[1]
     IN DataChange(Append(data, [column \in columns |-> Str(<<>>)]))

\* setActiveTab(tab); the upload components live on the upload tab only,
\* and are created anew (not processing, no error) when it is shown again
SetActiveTab ==
  \E tab \in Tabs :
    /\ tab # activeTab
    /\ activeTab' = tab
    /\ isProcessing' = IF activeTab = "upload"
                       THEN [dataType \in DataTypes |-> FALSE] ELSE isProcessing
    /\ uploadError' = IF activeTab = "upload"
                      THEN [dataType \in DataTypes |-> ""] ELSE uploadError
    /\ inFlight' = IF activeTab = "upload"
                   THEN [j \in 1..Len(inFlight) |->
                           [inFlight[j] EXCEPT !.mounted = FALSE]]
                   ELSE inFlight
    /\ UNCHANGED <<fileData, validationResults, uploadedFiles, events,
                   valVars, mhVars, gridVars, exportVars, pfVars>>

Next ==
  \/ ChooseFile
  \/ DropFile
  \/ ProcessUpload
  \/ DeliverUpload
  \/ DeleteRow
  \/ AddRow
  \/ SetActiveTab

Spec == Init /\ [][Next]_vars

(***************************************************************************)
(* Properties of the page                                                  *)
(***************************************************************************)
\* the k-th call validated a collection while the task (worker) collection
\* it could refer to was empty or was not handed over
CalledWithoutTasks(k) ==
  ~vCalls[k].allData.present \/ vCalls[k].allData.tasks = <<>>

CalledWithoutWorkers(k) ==
  ~vCalls[k].allData.present \/ vCalls[k].allData.workers = <<>>

\* C10: in any sequence of uploads and edits, a validation of clients made
\* while the task collection is empty reports no "Referenced task IDs not
\* found" error, and a validation of tasks made while the worker collection
\* is empty reports no skill-coverage and no phase-availability warning.
C10_CrossChecksNeedBothCollections ==
  \A k \in 1..Len(vResults) :
    /\ (vCalls[k].dataType = "clients" /\ CalledWithoutTasks(k)) =>
         \A e \in Range(ErrorsOf(k)) :
           e.message.text # "Referenced task IDs not found: "
    /\ (vCalls[k].dataType = "tasks" /\ CalledWithoutWorkers(k)) =>
         \A w \in Range(WarningsOf(k)) :
           w.message.text \notin
             {"No workers have these required skills: ",
              "Some preferred phases exceed worker availability: "}

(***************************************************************************)
(* Specification SpecIngest: a file of one cell under a canonical header,  *)
(* processed and then validated as handleFileUpload does                   *)
(***************************************************************************)
NumericFields ==
  {PriorityLevel, Duration, MaxLoadPerPhase, MaxConcurrent, QualificationLevel}

CellFields == NumericFields \cup {AttributesJSON, AvailableSlots, PreferredPhases}

\* the entity kind that declares the field
KindOf(field) ==
  CASE field \in {PriorityLevel, AttributesJSON} -> "clients"
    [] field \in {Duration, MaxConcurrent, PreferredPhases} -> "tasks"
    [] OTHER -> "workers"

\* raw cells: texts that are no number and no JSON, with and without
\* surrounding blanks; a number text; JSON texts; slot lists written with
\* commas and in brackets, with pieces that are no number; a number cell;
\* a list of whole numbers in brackets
CellPool ==
  { Str(<<"[", "1", ",", "2", ",", "3", "]">>), Str(<<"a", "b", "c">>), Str(<<" ", "1", "2", " ">>), Str(<<"{", "b", "a", "d", " ", "j", "s", "o", "n">>), Str(<<" ", " ", "{", "b", "a", "d", " ", "j", "s", "o", "n", " ">>),
    Str(<<"{", "\"", "a", "\"", ":", " ", "1", "}">>), Str(<<"1", ",", "2", ",", "3">>), Str(<<"1", ",", " ", "x", ",", "3">>), Str(<<"[", "1", ",", " ", "2", ",", " ", "x", "]">>),
    Str(<<"[", "\"", "x", "\"", "]">>), Str(<<" ", "[", "4", ",", " ", "5", "]", " ">>), Num(7) }

CellFiles ==
  { [ext |-> "csv", tooLarge |-> FALSE, parseError |-> FALSE,
     headers |-> <<field>>, rows |-> << (field :> raw) >>] :
      field \in CellFields, raw \in CellPool }

InitIngest ==
  /\ pfFile \in CellFiles
  /\ pfType = KindOf(pfFile.headers[1])
  /\ pfResult = NoFileResult
  /\ MapIdle /\ ValIdle /\ PageIdle /\ GridIdle /\ ExportIdle

\* if (result.success) result.validation = dataValidator.validate(result.data, dataType)
ValidateProcessed ==
  /\ pfResult.returned /\ pfResult.result.success
  /\ vCalls = <<>>
  /\ vCalls' = <<[data |-> pfResult.result.data, dataType |-> pfType,
                  allData |-> NoAllData]>>
  /\ ValidateCall([data |-> pfResult.result.data, dataType |-> pfType,
                   allData |-> NoAllData])
  /\ UNCHANGED <<mhVars, gridVars, exportVars, pfVars, pageVars>>

NextIngest == ProcessFileCall \/ ValidateProcessed

SpecIngest == InitIngest /\ [][NextIngest]_vars

(***************************************************************************)
(* Properties of the coercion of a cell and of its validation              *)
(***************************************************************************)
\* the header, the raw cell and the coerced cell of the one-cell file
CellField == pfFile.headers[1]

RawCell == pfFile.rows[1][CellField]

Coerced == Get(pfResult.result.data[1], CellField)

Converted == pfResult.returned /\ pfResult.result.success

Ingested == Converted /\ Len(vResults) = 1

\* the coercion gave up on the cell: a numeric field became null, or the
\* text of AttributesJSON that JSON.parse rejects stayed a string
CoercionFailed ==
  \/ CellField \in NumericFields /\ Coerced = Null
  \/ CellField = AttributesJSON /\ IsString(Coerced) /\ ~JSONparse(Coerced.s).ok

ErrorOnCell ==
  \E e \in Range(ErrorsOf(1)) :
    e.type = "error" /\ e.row = 0 /\ e.column = CellField

\* C11: whenever the coercion of a cell fails leniently (a numeric field
\* becomes null, an unparseable AttributesJSON stays a string), the
\* validation that follows reports an error diagnostic on that field, for
\* each of PriorityLevel, Duration, MaxLoadPerPhase, MaxConcurrent and
\* QualificationLevel.
C11_FailedCoercionIsReported ==
  (Ingested /\ CoercionFailed) => ErrorOnCell


\* the cells that list the positive whole numbers 1, 2, 3: separated by
\* commas, and as a JSON array
PhaseLists == { Str(<<"1", ",", "2", ",", "3">>), Str(<<"[", "1", ",", "2", ",", "3", "]">>) }

ErrorOnPhases ==
  \E e \in Range(ErrorsOf(1)) :
    e.type = "error" /\ e.column = PreferredPhases

\* C24: a PreferredPhases cell that lists positive whole numbers, written
\* with commas ("1,2,3") or as a JSON array ("[1,2,3]"), is coerced to a
\* value for which the validation of the task reports no error on
\* PreferredPhases.
C24_PhaseListsAreAccepted ==
  (Ingested /\ CellField = PreferredPhases /\ RawCell \in PhaseLists)
    => ~ErrorOnPhases
(***************************************************************************)
(* Further properties of validate                                          *)
(***************************************************************************)
DuplicateTexts ==
  {"Duplicate ClientID: ", "Duplicate WorkerID: ", "Duplicate TaskID: "}

\* the messages of the checks against the sibling collections
CrossCheckTexts ==
  {"Referenced task IDs not found: ",
   "No workers have these required skills: ",
   "Some preferred phases exceed worker availability: ",
   "Total task duration may exceed total worker capacity"}

\* among the diagnostics ds, those of the row's own checks at row index j,
\* the duplicate-identifier errors aside, without their identifiers
RowChecksAt(ds, j) ==
  LET IsRowCheck(d) ==
        /\ d.row = j
        /\ d.message.text \notin DuplicateTexts
        /\ d.message.text \notin CrossCheckTexts
  IN SelectSeq(Contents(ds), IsRowCheck)

\* the call that validates row index j of the k-th collection on its own
RowAlone(k, j) ==
  [data |-> <<vCalls[k].data[j + 1]>>, dataType |-> vCalls[k].dataType,
   allData |-> NoAllData]

\* diagnostics located at row 0, moved to row index j
MovedTo(ds, j) == [i \in 1..Len(ds) |-> [ds[i] EXCEPT !.row = j]]

\* the result is complete: it counts every row and every diagnostic
CompleteResult(k) ==
  /\ vResults[k].summary.totalRows = Len(vCalls[k].data)
  /\ vResults[k].summary.totalErrors = Len(ErrorsOf(k))
  /\ vResults[k].summary.totalWarnings = Len(WarningsOf(k))

\* C12: validate returns a complete result for every collection, and a bad
\* record never stops the pass: the diagnostics of the checks of row j are
\* the ones the row gets when validated on its own, whatever the other rows
\* hold, except the duplicate-identifier error, which row j gets exactly
\* when an earlier row carries its identifier.
C12_RowsAreCheckedIndependently ==
  \A k \in 1..Len(vResults) :
    /\ CompleteResult(k)
    /\ \A j \in 0..(Len(vCalls[k].data) - 1) :
         /\ RowChecksAt(ErrorsOf(k), j)
              = MovedTo(RowChecksAt(AloneErrors(RowAlone(k, j)), 0), j)
         /\ RowChecksAt(WarningsOf(k), j)
              = MovedTo(RowChecksAt(AloneWarnings(RowAlone(k, j)), 0), j)
         /\ (DuplicateErrorsAt(k, j) # <<>>) <=> OccursEarlier(k, j)

\* three rows: the first has errors of its own, and the last, which differs
\* from it, still gets its own errors and the duplicate-identifier error
C12_Witness ==
  /\ Len(vResults) = 1
  /\ Len(vCalls[1].data) = 3
  /\ RowChecksAt(ErrorsOf(1), 0) # <<>>
  /\ RowChecksAt(ErrorsOf(1), 2) # <<>>
  /\ vCalls[1].data[1] # vCalls[1].data[3]
  /\ DuplicateErrorsAt(1, 2) # <<>>

\* the i-th and the k-th result agree in everything but the generated
\* identifiers of their diagnostics
SameOutcome(i, k) ==
  /\ Contents(ErrorsOf(i)) = Contents(ErrorsOf(k))
  /\ Contents(WarningsOf(i)) = Contents(WarningsOf(k))
  /\ vResults[i].isValid = vResults[k].isValid
  /\ vResults[i].confidence = vResults[k].confidence
  /\ vResults[i].summary = vResults[k].summary

\* C13: two validate calls on identical input, whatever calls on the shared
\* instance lie between them, return the same diagnostics in the same order
\* (every field but the generated id) and the same isValid, confidence and
\* summary.
C13_SameInputSameOutcome ==
  \A i, k \in 1..Len(vResults) :
    vCalls[i] = vCalls[k] => SameOutcome(i, k)

\* the first and the third call validate the same input with errors, the
\* call between them another input; the identifiers of the errors differ
C13_Witness ==
  /\ Len(vResults) = 3
  /\ vCalls[1] = vCalls[3]
  /\ vCalls[2] # vCalls[1]
  /\ ErrorsOf(1) # <<>>
  /\ ErrorsOf(2) # <<>>
  /\ ErrorsOf(1)[1].id # ErrorsOf(3)[1].id

\* the diagnostics of type error that the k-th result holds
ErrorDiagnostics(k) ==
  {d \in Range(ErrorsOf(k)) \cup Range(WarningsOf(k)) : d.type = "error"}

\* C14: the returned isValid is true exactly when the result holds no
\* diagnostic of type error; warnings, however many, never change it.
C14_ValidIffNoError ==
  \A k \in 1..Len(vResults) :
    vResults[k].isValid <=> ErrorDiagnostics(k) = {}

\* a collection that gets warnings and no error is valid
C14_Witness ==
  /\ Len(vResults) = 1
  /\ Len(vCalls[1].data) > 0
  /\ Len(WarningsOf(1)) >= 2
  /\ ErrorsOf(1) = <<>>
  /\ vResults[1].isValid

\* an integer number value
IsInteger(v) == IsNumber(v) /\ ~IsNaNValue(v)

\* C15: coercing any raw value of AvailableSlots gives an array that holds
\* integers only: the pieces that are no number are dropped, whether the
\* value is written with commas or in brackets and whether or not it is
\* valid JSON ("1,2,3" gives [1,2,3], "[1, 2, x]" gives [1,2]).
C15_SlotsAreIntegers ==
  (Converted /\ CellField = AvailableSlots) =>
    /\ IsArray(Coerced)
    /\ \A i \in 1..Len(Coerced.a) : IsInteger(Coerced.a[i])
    /\ RawCell = Str(<<"1", ",", "2", ",", "3">>) => Coerced = Arr(<<Num(1), Num(2), Num(3)>>)
    /\ RawCell = Str(<<"[", "1", ",", " ", "2", ",", " ", "x", "]">>) => Coerced = Arr(<<Num(1), Num(2)>>)

\* the raw cell as a text
RawText == StringOf(RawCell)

\* the text from its first to its last character that is no blank
Stripped(s) ==
  LET inked == {i \in 1..Len(s) : s[i] # " "}
      first == CHOOSE i \in inked : \A j \in inked : i <= j
      last == CHOOSE i \in inked : \A j \in inked : i >= j
  IN IF inked = {} THEN <<>> ELSE SubSeq(s, first, last)

\* C16 as stated: coercing a non-empty raw AttributesJSON returns the parsed
\* value when the text is valid JSON and the original text verbatim
\* otherwise ("{bad json" comes back unchanged).
C16_UnparseableJsonVerbatim ==
  (Converted /\ CellField = AttributesJSON) =>
    IF JSONparse(RawText).ok
    THEN Coerced = JSONparse(RawText).v
    ELSE Coerced = Str(RawText)

\* C16: coercing a non-empty raw AttributesJSON never fails: it returns the
\* parsed value when the text is valid JSON, and otherwise the text without
\* its leading and trailing white space ("{bad json" comes back unchanged).
C16_UnparseableJsonTrimmed ==
  (Converted /\ CellField = AttributesJSON) =>
    /\ IF JSONparse(RawText).ok
       THEN Coerced = JSONparse(RawText).v
       ELSE Coerced = Str(Stripped(RawText))
    /\ RawCell = Str(<<"{", "b", "a", "d", " ", "j", "s", "o", "n">>) => Coerced = RawCell

\* an unparseable text with blanks around it comes back without them
C16_Witness ==
  /\ Converted /\ CellField = AttributesJSON
  /\ ~JSONparse(RawText).ok
  /\ Coerced = Str(<<"{", "b", "a", "d", " ", "j", "s", "o", "n">>)
  /\ Coerced # RawCell

\* the hours a task asks for and the hours a worker offers, for numeric or
\* missing Duration and MaxLoadPerPhase
Hours(task) ==
  LET d == Get(task, Duration) IN IF IsInteger(d) THEN d.n ELSE 0

Offered(worker) ==
  LET load == Get(worker, MaxLoadPerPhase)
      slots == Get(worker, AvailableSlots)
  IN (IF IsInteger(load) THEN load.n ELSE 0)
       * (IF IsArray(slots) THEN Max2(Len(slots.a), 1) ELSE 1)

RECURSIVE Demand(_, _)
Demand(tasks, n) == IF n = 0 THEN 0 ELSE Demand(tasks, n - 1) + Hours(tasks[n])

RECURSIVE Capacity(_, _)
Capacity(workers, n) ==
  IF n = 0 THEN 0 ELSE Capacity(workers, n - 1) + Offered(workers[n])

\* the diagnostics of the k-th result about the total workload
WorkloadDiagnostics(k) ==
  LET IsWorkload(d) ==
        d.message.text = "Total task duration may exceed total worker capacity"
  IN SelectSeq(ErrorsOf(k) \o WarningsOf(k), IsWorkload)

Overloaded(k) ==
  Demand(vCalls[k].allData.tasks, Len(vCalls[k].allData.tasks))
    > Capacity(vCalls[k].allData.workers, Len(vCalls[k].allData.workers))

\* C17: in the cross-entity pass, exactly one warning for the whole
\* collection, located at row 0, is given when the sum of the task Durations
\* is strictly greater than the sum over the workers of MaxLoadPerPhase
\* times max(len(AvailableSlots), 1), and none when it is less or equal.
C17_WorkloadWarningIffOverloaded ==
  \A k \in 1..Len(vResults) :
    IF vCalls[k].allData.present /\ Overloaded(k)
    THEN /\ Len(WorkloadDiagnostics(k)) = 1
         /\ WorkloadDiagnostics(k)[1].type = "warning"
         /\ WorkloadDiagnostics(k)[1].row = 0
    ELSE WorkloadDiagnostics(k) = <<>>

\* two tasks asking for seven hours of a worker who offers four: one warning
C17_Witness ==
  /\ Len(vResults) = 1
  /\ vCalls[1].allData.present
  /\ Len(vCalls[1].allData.tasks) = 2
  /\ Demand(vCalls[1].allData.tasks, 2) = 7
  /\ Capacity(vCalls[1].allData.workers, Len(vCalls[1].allData.workers)) = 4
  /\ Len(WorkloadDiagnostics(1)) = 1

\* the diagnostics of the k-th result about uncovered skills (about late
\* phases) at task row index j
SkillDiagnosticsAt(k, j) ==
  LET IsSkillGap(d) ==
        /\ d.entity = "tasks" /\ d.row = j
        /\ d.message.text = "No workers have these required skills: "
  IN SelectSeq(ErrorsOf(k) \o WarningsOf(k), IsSkillGap)

PhaseDiagnosticsAt(k, j) ==
  LET IsLatePhase(d) ==
        /\ d.entity = "tasks" /\ d.row = j
        /\ d.message.text = "Some preferred phases exceed worker availability: "
  IN SelectSeq(ErrorsOf(k) \o WarningsOf(k), IsLatePhase)

\* the required skills of task row j that are in no worker's Skills
UncoveredAt(k, j) ==
  LET required == Get(vCalls[k].allData.tasks[j + 1], RequiredSkills)
      workers == vCalls[k].allData.workers
      Held(skill) ==
        \E w \in 1..Len(workers) :
          /\ IsArray(Get(workers[w], Skills))
          /\ InSeq(Get(workers[w], Skills).a, skill)
      NotHeld(skill) == ~Held(skill)
  IN IF IsArray(required) THEN SelectSeq(required.a, NotHeld) ELSE <<>>

\* the preferred phases of task row j that lie after every worker's slots
LatePhasesAt(k, j) ==
  LET phases == Get(vCalls[k].allData.tasks[j + 1], PreferredPhases)
      workers == vCalls[k].allData.workers
      Late(phase) ==
        /\ phase.n > 0
        /\ \A w \in 1..Len(workers) :
             IsArray(Get(workers[w], AvailableSlots)) =>
               \A i \in 1..Len(Get(workers[w], AvailableSlots).a) :
                 phase.n > Get(workers[w], AvailableSlots).a[i].n
  IN IF IsArray(phases) THEN SelectSeq(phases.a, Late) ELSE <<>>

\* C18: in the cross-entity pass, each task row with a required skill that
\* no worker holds gets exactly one warning, never an error, listing its
\* uncovered skills, and a task whose required skills are all held gets
\* none; each of the four cross-entity checks reports what it finds
\* whatever the other three found.
C18_UncoveredSkillsWarnOncePerTask ==
  \A k \in 1..Len(vResults) :
    vCalls[k].allData.present =>
      /\ \A j \in 0..(Len(vCalls[k].allData.tasks) - 1) :
           /\ IF UncoveredAt(k, j) # <<>>
              THEN /\ Len(SkillDiagnosticsAt(k, j)) = 1
                   /\ SkillDiagnosticsAt(k, j)[1].type = "warning"
                   /\ SkillDiagnosticsAt(k, j)[1].value = Arr(UncoveredAt(k, j))
                   /\ SkillDiagnosticsAt(k, j)[1].message.arg
                        = JoinValues(UncoveredAt(k, j))
              ELSE SkillDiagnosticsAt(k, j) = <<>>
           /\ (PhaseDiagnosticsAt(k, j) # <<>>) <=> (LatePhasesAt(k, j) # <<>>)
      /\ \A j \in 0..(Len(vCalls[k].allData.clients) - 1) :
           (ReferenceErrorsAt(k, j) # <<>>) <=> (UnresolvedAt(k, j) # <<>>)
      /\ (WorkloadDiagnostics(k) # <<>>) <=> Overloaded(k)

\* one pass in which all four checks report: an unknown task reference, a
\* skill no worker holds, a phase after the last slot and too much work
C18_Witness ==
  /\ Len(vResults) = 1
  /\ vCalls[1].allData.present
  /\ vCalls[1].allData.workers # <<>>
  /\ \E j \in 0..(Len(vCalls[1].allData.tasks) - 1) :
       /\ UncoveredAt(1, j) # <<>>
       /\ Len(SkillDiagnosticsAt(1, j)) = 1
       /\ PhaseDiagnosticsAt(1, j) # <<>>
  /\ \E j \in 0..(Len(vCalls[1].allData.tasks) - 1) :
       /\ Get(vCalls[1].allData.tasks[j + 1], RequiredSkills).a # <<>>
       /\ UncoveredAt(1, j) = <<>>
       /\ SkillDiagnosticsAt(1, j) = <<>>
  /\ \E j \in 0..(Len(vCalls[1].allData.clients) - 1) :
       ReferenceErrorsAt(1, j) # <<>>
  /\ WorkloadDiagnostics(1) # <<>>

\* the diagnostics among ds located at row index j and the given column
DiagnosticsOn(ds, j, column) ==
  LET IsThere(d) == d.row = j /\ d.column = column
  IN SelectSeq(ds, IsThere)

\* C19: a worker whose Skills list is empty or absent gets an error on
\* Skills at its row, whereas a task whose RequiredSkills list is empty
\* gets a warning on RequiredSkills at its row and no error on it.
C19_EmptySkillsErrorForWorkersOnly ==
  \A k \in 1..Len(vResults) :
    \A j \in 0..(Len(vCalls[k].data) - 1) :
      /\ (/\ vCalls[k].dataType = "workers"
          /\ Get(vCalls[k].data[j + 1], Skills) \in {Undefined, Null, Arr(<<>>)})
           => /\ Len(DiagnosticsOn(ErrorsOf(k), j, Skills)) = 1
              /\ DiagnosticsOn(ErrorsOf(k), j, Skills)[1].type = "error"
      /\ (/\ vCalls[k].dataType = "tasks"
          /\ Get(vCalls[k].data[j + 1], RequiredSkills) = Arr(<<>>))
           => /\ DiagnosticsOn(ErrorsOf(k), j, RequiredSkills) = <<>>
              /\ Len(DiagnosticsOn(WarningsOf(k), j, RequiredSkills)) = 1
              /\ DiagnosticsOn(WarningsOf(k), j, RequiredSkills)[1].type = "warning"

\* workers without Skills and with an empty Skills list in one pass, each
\* with the error, beside a worker with a skill and without it
C19_Witness ==
  /\ Len(vResults) = 1
  /\ vCalls[1].dataType = "workers"
  /\ \E a, b, c \in 0..(Len(vCalls[1].data) - 1) :
       /\ Get(vCalls[1].data[a + 1], Skills) = Undefined
       /\ Get(vCalls[1].data[b + 1], Skills) = Arr(<<>>)
       /\ Len(Get(vCalls[1].data[c + 1], Skills).a) > 0
       /\ Len(DiagnosticsOn(ErrorsOf(1), a, Skills)) = 1
       /\ Len(DiagnosticsOn(ErrorsOf(1), b, Skills)) = 1
       /\ DiagnosticsOn(ErrorsOf(1), c, Skills) = <<>>

(***************************************************************************)
(* Specification SpecSim: one calculateSimilarity call on two strings      *)
(***************************************************************************)
\* strings over a lower-case letter, an upper-case letter and a character
\* that normalize removes
SimAlphabet == {"a", "B", "_"}

SimStrings == SeqsUpTo(SimAlphabet, MaxSimLen)

InitSim ==
  /\ simPair \in SimStrings \X SimStrings
  /\ simScore = NotScored
  /\ HeadersIdle /\ FileIdle /\ ValIdle /\ PageIdle /\ GridIdle /\ ExportIdle

SimilarityCall ==
  /\ ~simScore.returned
  /\ simScore' = [returned |-> TRUE,
                  score |-> calculateSimilarity(simPair[1], simPair[2])]
  /\ UNCHANGED <<simPair, mhHeaders, mhType, mhResult, pfVars, valVars, pageVars,
                 gridVars, exportVars>>

NextSim == SimilarityCall

SpecSim == InitSim /\ [][NextSim]_vars

(***************************************************************************)
(* Properties of calculateSimilarity                                       *)
(***************************************************************************)
\* the fraction is a number (its denominator is not 0) between 0 and 1
InUnitInterval(score) ==
  score[2] > 0 /\ 0 <= score[1] /\ score[1] <= score[2]

\* C20: for every pair of strings the similarity is a defined number in
\* [0,1], never negative, above 1 or NaN, also when one or both strings
\* normalize to the empty string, and the similarity of a string with
\* itself is 1.
C20_SimilarityInUnitInterval ==
  simScore.returned =>
    /\ InUnitInterval(simScore.score)
    /\ simPair[1] = simPair[2] => simScore.score[1] = simScore.score[2]

\* a string of removed characters scored against itself: both normalize to
\* the empty string and the score is 1
C20_Witness ==
  /\ simScore.returned
  /\ simPair[1] = simPair[2]
  /\ simPair[1] # <<>>
  /\ \A i \in 1..Len(simPair[1]) : simPair[1][i] = "_"
  /\ simScore.score = <<1, 1>>

\* C21: for every input, the confidence of the returned result is between
\* 0 and 100 inclusive and summary.validRows is between 0 and
\* summary.totalRows, also when a row has several errors or when errors of
\* the cross-entity pass that belong to another collection are in the result.
C21_ConfidenceAndValidRowsInRange ==
  \A k \in 1..Len(vResults) :
    /\ 0 <= vResults[k].confidence /\ vResults[k].confidence <= 100
    /\ 0 <= vResults[k].summary.validRows
    /\ vResults[k].summary.validRows <= vResults[k].summary.totalRows

(***************************************************************************)
(* Further properties of the page                                          *)
(***************************************************************************)
\* validate called now on the stored collection of the kind, with the three
\* stored collections as allData
\* the stored result holds what the outcome of a validation holds: the
\* same diagnostics, verdict, confidence and summary
SameResult(stored, heap, out) ==
  /\ Contents(heap[stored.errors]) = Contents(out.inst.heap[out.result.errors])
  /\ Contents(heap[stored.warnings]) = Contents(out.inst.heap[out.result.warnings])
  /\ stored.isValid = out.result.isValid
  /\ stored.confidence = out.result.confidence
  /\ stored.summary = out.result.summary

\* the stored result of the kind is the result of validate on the current
\* contents of the three collections
StoredIsCurrent(kind) ==
  SameResult(validationResults[kind], validator.heap,
             validate(NewValidator, fileData[kind], kind, AllDataOf(fileData)))

\* C22: after any sequence of completed uploads and grid edits, the result
\* stored for each non-empty kind equals what validate returns for the
\* current contents of the three collections; a change to one collection
\* also refreshes the cross-entity diagnostics in the other kinds' results.
C22_StoredResultsAreCurrent ==
  inFlight = <<>> =>
    \A kind \in DataTypes : fileData[kind] # <<>> => StoredIsCurrent(kind)

(***************************************************************************)
(* Further properties of processFile                                       *)
(***************************************************************************)
\* C23: in every cleaned row the value under each mapped canonical field is
\* convertValue of the cell of the header that claimed the field; the raw
\* cell of an unclaimed header never takes its place, also when the
\* unclaimed header is named like the canonical field.
C23_MappedFieldsHoldConvertedCells ==
  FileProcessed =>
    \A r \in 1..Len(pfFile.rows) :
      \A f \in DOMAIN pfResult.result.mappedHeaders :
        /\ f \in DOMAIN pfResult.result.data[r]
        /\ pfResult.result.data[r][f] =
             convertValue(Get(pfFile.rows[r], pfResult.result.mappedHeaders[f]), f)

\* the run was started before the collection of the other kind arrived:
\* the two uploads were in flight at once
OverlappedWith(run, other) ==
  /\ other # run.dataType
  /\ run.result.success
  /\ run.closure[other] = <<>>
  /\ uploadedFiles[other]
  /\ fileData[other] # <<>>

\* the delivery that completes the second of two overlapping uploads, no
\* other event having taken place
CompletesOverlap(other) ==
  /\ events = 2
  /\ Len(inFlight) = 1
  /\ inFlight' = <<>>
  /\ OverlappedWith(inFlight[1], other)

\* C25: when two uploads of different kinds are in flight at once, after
\* both have completed, in either order, both collections are stored and
\* the stored result of each kind reflects the data of the other kind: no
\* upload overwrites with a result computed from a stale snapshot.
C25_OverlappingUploadsSeeEachOther ==
  [][\A own, other \in DataTypes :
       (Len(inFlight) = 1 /\ own = inFlight[1].dataType
          /\ CompletesOverlap(other)) =>
         /\ fileData'[other] # <<>>
         /\ fileData'[own] # <<>>
         /\ StoredIsCurrent(other)'
         /\ StoredIsCurrent(own)']_vars

\* the runs of the upload component that is on the page for the kind
RunsOf(kind) ==
  {i \in 1..Len(inFlight) : inFlight[i].dataType = kind /\ inFlight[i].mounted}

\* C28: an upload component processes one file at a time: while it is
\* processing, neither choosing nor dropping a file starts a second run,
\* so that no two of its runs overlap and onFileProcessed is never called
\* for overlapping runs.
C28_OneRunAtATime ==
  /\ \A kind \in DataTypes : Cardinality(RunsOf(kind)) <= 1
  /\ \A kind \in DataTypes : RunsOf(kind) # {} => isProcessing[kind]

\* the step is validateFile turning the chosen file down: an event on the
\* upload tab that starts no run
RejectsFile ==
  /\ activeTab = "upload"
  /\ events' = events + 1
  /\ inFlight' = inFlight

\* the step ends the run i, whose processFile result is a failure, in the
\* component that is still on the page
EndsFailedRun(i) ==
  /\ Len(inFlight') = Len(inFlight) - 1
  /\ inFlight' = [j \in 1..(Len(inFlight) - 1) |->
                    IF j < i THEN inFlight[j] ELSE inFlight[j + 1]]
  /\ events' = events
  /\ ~inFlight[i].result.success
  /\ inFlight[i].mounted

StoredUnchanged ==
  /\ fileData' = fileData
  /\ validationResults' = validationResults

\* C29: whenever the processing of a file fails (wrong extension, more than
\* 10MB, a parse error, no rows), the upload component ends in its error
\* state with a message set, and the stored collections and validation
\* results are unchanged.
C29_FailureSetsErrorAndKeepsData ==
  [][/\ RejectsFile =>
          /\ \E kind \in DataTypes : uploadError'[kind] # ""
          /\ StoredUnchanged
     /\ \A i \in 1..Len(inFlight) :
          EndsFailedRun(i) =>
            /\ uploadError'[inFlight[i].dataType] # ""
            /\ StoredUnchanged]_vars

(***************************************************************************)
(* DataGrid (DataGrid.tsx): the table of one collection with its search    *)
(* box, its sort and its cell editor                                       *)
(***************************************************************************)
\* the characters of the modelled cells in the order of their code units
CodeUnits ==
  <<" ", "\"", ",", "-">> \o Digits \o <<":">> \o UpperCase
    \o <<"[", "]", "_">> \o LowerCase \o <<"{", "}">>

CodeOf(c) == CHOOSE i \in 1..Len(CodeUnits) : CodeUnits[i] = c

\* s < t on two strings: the first differing code unit decides, a proper
\* prefix comes first
StrLess(s, t) ==
  \E i \in 1..(Len(t)) :
    /\ i <= Len(s) + 1
    /\ \A j \in 1..(i - 1) : s[j] = t[j]
    /\ (i = Len(s) + 1 \/ CodeOf(s[i]) < CodeOf(t[i]))

\* an array or an object compares as its string
ToPrimitive(v) == IF v.t \in {"array", "object"} THEN Str(StringOf(v)) ELSE v

\* a < b: two strings compare as strings, anything else as numbers (false
\* when either is NaN)
JsLess(a, b) ==
  IF IsString(ToPrimitive(a)) /\ IsString(ToPrimitive(b))
  THEN StrLess(ToPrimitive(a).s, ToPrimitive(b).s)
  ELSE /\ ~ToNumber(ToPrimitive(a)).nan
       /\ ~ToNumber(ToPrimitive(b)).nan
       /\ ToNumber(ToPrimitive(a)).n < ToNumber(ToPrimitive(b)).n

\* the comparator handed to sort
CompareRows(a, b, sc) ==
  IF JsLess(Get(a, sc.key), Get(b, sc.key))
  THEN (IF sc.direction = "asc" THEN -1 ELSE 1)
  ELSE IF JsLess(Get(b, sc.key), Get(a, sc.key))
  THEN (IF sc.direction = "asc" THEN 1 ELSE -1)
  ELSE 0

\* Array.prototype.sort is stable: a row comes after the rows that compare
\* smaller and after the equal rows that stood before it
RankOf(rows, i, sc) ==
  1 + Cardinality({j \in 1..Len(rows) :
                     \/ CompareRows(rows[j], rows[i], sc) < 0
                     \/ CompareRows(rows[j], rows[i], sc) = 0 /\ j < i})

SortRows(rows, sc) ==
  [p \in 1..Len(rows) |->
     rows[CHOOSE i \in 1..Len(rows) : RankOf(rows, i, sc) = p]]

LowerText(s) == [i \in 1..Len(s) |-> toLowerCase(s[i])]

\* Object.values(row).some(value => String(value).toLowerCase().includes(term.toLowerCase()))
MatchesSearch(row, term) ==
  \E c \in DOMAIN row : Includes(LowerText(StringOf(row[c])), LowerText(term))

FilterRows(data, term) ==
  LET Shown(row) == MatchesSearch(row, term)
  IN SelectSeq(data, Shown)

\* processedData: the rows the table shows, in the order it shows them
processedData(data, term, sc) ==
  LET filtered == IF term # <<>> THEN FilterRows(data, term) ELSE data
  IN IF sc # <<>> THEN SortRows(filtered, sc[1]) ELSE filtered

\* columns: Object.keys(data[0])
columns(data) == IF data = <<>> THEN {} ELSE DOMAIN data[1]

\* the comparator orders the two cells: they compare as strings, or as
\* numbers neither of which is NaN
Comparable(a, b) ==
  IF IsString(ToPrimitive(a)) /\ IsString(ToPrimitive(b)) THEN TRUE
  ELSE ~ToNumber(ToPrimitive(a)).nan /\ ~ToNumber(ToPrimitive(b)).nan

\* the comparator answers the same way round for every pair of cells under
\* the column
OrdersColumn(data, column) ==
  \A i, j \in 1..Len(data) :
    Comparable(Get(data[i], column), Get(data[j], column))

\* handleSort: ascending, then descending, then no sort
NextSortConfig(current, column) ==
  IF current # <<>> /\ current[1].key = column
  THEN IF current[1].direction = "asc"
       THEN <<[key |-> column, direction |-> "desc"]>>
       ELSE <<>>
  ELSE <<[key |-> column, direction |-> "asc"]>>

\* startEdit: Array.isArray(value) ? value.join(', ') : String(value || '')
EditTextOf(value) ==
  IF IsArray(value) THEN JoinValues(value.a)
  ELSE StringOf(OrElse(value, Str(<<>>)))

\* saveEdit: the text of the editor parsed by the name of the column
ParseEdit(text, column) ==
  IF IsListField(column)
  THEN StrArr(SelectSeq(TrimAll(split(text, ",")), NonEmpty))
  ELSE IF IsNumberField(column)
  THEN (IF parseFloat(text).nan THEN Null ELSE Num(parseFloat(text).n))
  ELSE IF IsJsonField(column)
  THEN (IF JSONparse(text).ok THEN JSONparse(text).v ELSE Str(text))
  ELSE Str(text)

\* newData[rowIndex][column] = parsedValue
SetCell(data, rowIndex, column, value) ==
  [data EXCEPT ![rowIndex + 1] =
     [c \in DOMAIN data[rowIndex + 1] \cup {column} |->
        IF c = column THEN value ELSE data[rowIndex + 1][c]]]

\* data.filter((_, index) => index !== rowIndex)
WithoutRow(data, rowIndex) ==
  [j \in 1..(Len(data) - 1) |-> IF j - 1 < rowIndex THEN data[j] ELSE data[j + 1]]

\* newRow[column] = '' for every column
EmptyRow(data) == [c \in columns(data) |-> Str(<<>>)]

(***************************************************************************)
(* Specification SpecGrid: the grid over a bounded collection, the page    *)
(* handing back as data what onDataChange received                         *)
(***************************************************************************)
\* the value JSON.parse gives for {"a": 1}
ObjectA1 == JSONparse(<<"{", "\"", "a", "\"", ":", " ", "1", "}">>).v

GridClients ==
  << (ClientID :> Str(<<"C", "1">>) @@ PriorityLevel :> Num(3) @@ AttributesJSON :> ObjectA1),
     (ClientID :> Str(<<"C", "2">>) @@ PriorityLevel :> Num(1) @@ AttributesJSON :> ObjectA1) >>

GridWorkers ==
  << (WorkerID :> Str(<<"W", "1">>) @@ AvailableSlots :> Arr(<<Num(1), Num(3)>>)),
     (WorkerID :> Str(<<"W", "2">>) @@ AvailableSlots :> Arr(<<Num(1)>>)) >>

GridTasks ==
  << (TaskID :> Str(<<"T", "2">>) @@ PreferredPhases :> Arr(<<Num(1), Num(3)>>)),
     (TaskID :> Str(<<"T", "1">>) @@ PreferredPhases :> Arr(<<Num(2)>>)) >>

GridCollections == {GridClients, GridWorkers, GridTasks}

\* what the user types: into the search box, into the cell editor
SearchPool == { <<>>, <<"2">> }

TextPool == { <<"x">>, <<"5">> }

InitGrid ==
  /\ gData \in GridCollections
  /\ GridHooksIdle
  /\ MapIdle /\ FileIdle /\ ValIdle /\ PageIdle /\ ExportIdle

\* the user goes on
MoreEvents == gEvents < MaxGridEvents

\* one more user event on the grid
GridEvent(op, row, column) ==
  /\ gEvents' = gEvents + 1
  /\ gLast' = [op |-> op, row |-> row, column |-> column]
  /\ UNCHANGED <<mhVars, pfVars, valVars, pageVars, exportVars>>

\* the rows on the screen
Displayed == processedData(gData, searchTerm, sortConfig)

\* the cell editor is on the screen
EditorShown ==
  /\ editingCell # <<>>
  /\ editingCell[1].row < Len(Displayed)
  /\ editingCell[1].column \in columns(gData)

\* onChange of the search box
SetSearchTerm ==
  \E term \in SearchPool :
    /\ MoreEvents
    /\ gData # <<>>
    /\ term # searchTerm
    /\ searchTerm' = term
    /\ GridEvent("setSearchTerm", 0, <<>>)
    /\ UNCHANGED <<gData, sortConfig, editingCell, editValue>>

\* a click on a column header
HandleSort ==
  \E column \in columns(gData) :
    /\ MoreEvents
    /\ OrdersColumn(gData, column)
    /\ sortConfig' = NextSortConfig(sortConfig, column)
    /\ GridEvent("handleSort", 0, column)
    /\ UNCHANGED <<gData, searchTerm, editingCell, editValue>>

\* a click on a cell that is not being edited
StartEdit ==
  \E rowIndex \in 0..(Len(Displayed) - 1) : \E column \in columns(gData) :
    /\ MoreEvents
    /\ editingCell # <<[row |-> rowIndex, column |-> column]>>
    /\ editingCell' = <<[row |-> rowIndex, column |-> column]>>
    /\ editValue' = EditTextOf(Get(Displayed[rowIndex + 1], column))
    /\ GridEvent("startEdit", rowIndex, column)
    /\ UNCHANGED <<gData, searchTerm, sortConfig>>

\* onChange of the cell editor
TypeText ==
  \E text \in TextPool :
    /\ MoreEvents
    /\ EditorShown
    /\ editValue' = text
    /\ GridEvent("setEditValue", editingCell[1].row, editingCell[1].column)
    /\ UNCHANGED <<gData, searchTerm, sortConfig, editingCell>>

\* saveEdit, by the Save button or the Enter key
SaveEdit ==
  /\ MoreEvents
  /\ EditorShown
  /\ gData' = SetCell(gData, editingCell[1].row, editingCell[1].column,
                      ParseEdit(editValue, editingCell[1].column))
  /\ editingCell' = <<>>
  /\ editValue' = <<>>
  /\ GridEvent("saveEdit", editingCell[1].row, editingCell[1].column)
  /\ UNCHANGED <<searchTerm, sortConfig>>

\* cancelEdit, by the X button or the Escape key
CancelEdit ==
  /\ MoreEvents
  /\ EditorShown
  /\ editingCell' = <<>>
  /\ editValue' = <<>>
  /\ GridEvent("cancelEdit", editingCell[1].row, editingCell[1].column)
  /\ UNCHANGED <<gData, searchTerm, sortConfig>>

\* addRow
GridAddRow ==
  /\ MoreEvents
  /\ gData' = Append(gData, EmptyRow(gData))
  /\ GridEvent("addRow", 0, <<>>)
  /\ UNCHANGED <<searchTerm, sortConfig, editingCell, editValue>>

\* deleteRow(rowIndex) of the row shown at rowIndex
GridDeleteRow ==
  \E rowIndex \in 0..(Len(Displayed) - 1) :
    /\ MoreEvents
    /\ gData' = WithoutRow(gData, rowIndex)
    /\ GridEvent("deleteRow", rowIndex, <<>>)
    /\ UNCHANGED <<searchTerm, sortConfig, editingCell, editValue>>

NextGrid ==
  \/ SetSearchTerm
  \/ HandleSort
  \/ StartEdit
  \/ TypeText
  \/ SaveEdit
  \/ CancelEdit
  \/ GridAddRow
  \/ GridDeleteRow

SpecGrid == InitGrid /\ [][NextGrid]_vars

(***************************************************************************)
(* Properties of the grid                                                  *)
(***************************************************************************)
\* the step changes, of the stored row i, the cell under the column and
\* nothing else of the collection
OnlyCellChanged(i, column) ==
  /\ Len(gData') = Len(gData)
  /\ \A j \in 1..Len(gData) : j # i => gData'[j] = gData[j]
  /\ \A c \in DOMAIN gData[i] \ {column} :
       c \in DOMAIN gData'[i] /\ gData'[i][c] = gData[i][c]

\* the step removes the stored row i and nothing else
OnlyRowRemoved(i) ==
  gData' = [j \in 1..(Len(gData) - 1) |->
              IF j < i THEN gData[j] ELSE gData[j + 1]]

\* C26: saving an edit changes exactly the cell of the record the table
\* shows at the edited position, and deleting a row removes exactly the
\* record the table shows at that position, also while a search filter or
\* a sort is active.
C26_EditsReachTheDisplayedRecord ==
  [][/\ gLast'.op = "saveEdit" =>
          \E i \in 1..Len(gData) :
            /\ gData[i] = Displayed[gLast'.row + 1]
            /\ OnlyCellChanged(i, gLast'.column)
     /\ gLast'.op = "deleteRow" =>
          \E i \in 1..Len(gData) :
            /\ gData[i] = Displayed[gLast'.row + 1]
            /\ OnlyRowRemoved(i)]_vars

\* C27: starting an edit on a cell and saving without changing the text
\* leaves the cell with the value it had, in type and content, for every
\* field: in particular AvailableSlots, PreferredPhases and an
\* AttributesJSON holding an object.
C27_SavingUnchangedTextKeepsTheValue ==
  [][(gLast.op = "startEdit" /\ gLast'.op = "saveEdit") =>
       \E i \in 1..Len(gData) :
         /\ gData[i] = Displayed[gLast'.row + 1]
         /\ Len(gData') = Len(gData)
         /\ Get(gData'[i], gLast'.column) = Get(gData[i], gLast'.column)]_vars

(***************************************************************************)
(* ExportPanel (ExportPanel.tsx): the export options and exportData.  A    *)
(* downloaded file is [filename, contentType, content]; content is the     *)
(* object handed to JSON.stringify, a function from its keys to values.    *)
(***************************************************************************)
\* prioritySettings as the page constructs them
PrioritySettings ==
  [clientPriorityWeight |-> 30, skillMatchWeight |-> 25,
   workloadBalanceWeight |-> 20, deadlineWeight |-> 15,
   costOptimizationWeight |-> 10]

ExportFormats == {"xlsx", "csv", "json"}

ExportCompleted == "Export completed successfully!"

\* businessRules.filter(rule => rule.active)
ActiveRules(rules) ==
  LET Active(rule) == rule.active
  IN SelectSeq(rules, Active)

\* the rules configuration, generated at the clock reading now
RulesConfig(rules, now) ==
  [businessRules |-> ActiveRules(rules), prioritySettings |-> PrioritySettings,
   configVersion |-> "1.0", generatedAt |-> now]

\* the object of the JSON export
ExportDocument(data, rules, config, now) ==
  IF config.includeBusinessRules
  THEN ("metadata" :> [exportDate |-> now, version |-> "1.0"])
         @@ ("data" :> [clients |-> data.clients, workers |-> data.workers,
                        tasks |-> data.tasks])
         @@ ("configuration" :> RulesConfig(rules, now))
  ELSE ("metadata" :> [exportDate |-> now, version |-> "1.0"])
         @@ ("data" :> [clients |-> data.clients, workers |-> data.workers,
                        tasks |-> data.tasks])

\* the files exportData hands to downloadFile, in order
ExportedFiles(data, rules, config, now) ==
  (IF config.format = "json"
   THEN <<[filename |-> <<"data-alchemist-export-", now, ".json">>,
           contentType |-> "application/json",
           content |-> ExportDocument(data, rules, config, now)]>>
   ELSE <<>>)
  \o
  (IF config.includeBusinessRules
   THEN <<[filename |-> <<"rules-", now, ".json">>,
           contentType |-> "application/json",
           content |-> ("businessRules" :> ActiveRules(rules))
                         @@ ("prioritySettings" :> PrioritySettings)
                         @@ ("configVersion" :> "1.0")
                         @@ ("generatedAt" :> now)]>>
   ELSE <<>>)

\* getDataSummary().hasData: the panel shows its controls
HasData(data) == Len(data.clients) + Len(data.workers) + Len(data.tasks) > 0

(***************************************************************************)
(* Specification SpecExport: the panel over bounded data and rules         *)
(***************************************************************************)
ExportDataPool ==
  { InitialFileData,
    [clients |-> GridClients, workers |-> <<>>, tasks |-> <<>>],
    [clients |-> GridClients, workers |-> GridWorkers, tasks |-> GridTasks] }

ExportRulesPool ==
  { <<>>,
    <<[id |-> 1, active |-> TRUE]>>,
    <<[id |-> 1, active |-> TRUE], [id |-> 2, active |-> FALSE]>> }

\* the readings of the clock
Clock == 1..2

InitExport ==
  /\ exData \in ExportDataPool
  /\ exRules \in ExportRulesPool
  /\ ExportHooksIdle
  /\ MapIdle /\ FileIdle /\ ValIdle /\ PageIdle /\ GridIdle

\* a click on one of the format buttons
SetFormat ==
  \E format \in ExportFormats :
    /\ HasData(exData)
    /\ exportConfig' = [exportConfig EXCEPT !.format = format]
    /\ UNCHANGED <<exData, exRules, isExporting, exportStatus, downloads,
                   mhVars, pfVars, valVars, pageVars, gridVars>>

\* the check box of the rules configuration
SetIncludeBusinessRules ==
  \E checked \in BOOLEAN :
    /\ HasData(exData)
    /\ exportConfig' = [exportConfig EXCEPT !.includeBusinessRules = checked]
    /\ UNCHANGED <<exData, exRules, isExporting, exportStatus, downloads,
                   mhVars, pfVars, valVars, pageVars, gridVars>>

\* exportData, which awaits nothing: from setIsExporting(true) to the
\* finally block in one step
ExportData ==
  \E now \in Clock :
    /\ HasData(exData)
    /\ ~isExporting
    /\ Len(downloads) < MaxDownloads
    /\ downloads' = downloads \o ExportedFiles(exData, exRules, exportConfig, now)
    /\ exportStatus' = ExportCompleted
    /\ isExporting' = FALSE
    /\ UNCHANGED <<exData, exRules, exportConfig,
                   mhVars, pfVars, valVars, pageVars, gridVars>>

\* setTimeout(() => setExportStatus(null), 3000)
ClearExportStatus ==
  /\ exportStatus # ""
  /\ exportStatus' = ""
  /\ UNCHANGED <<exData, exRules, exportConfig, isExporting, downloads,
                 mhVars, pfVars, valVars, pageVars, gridVars>>

NextExport ==
  \/ SetFormat
  \/ SetIncludeBusinessRules
  \/ ExportData
  \/ ClearExportStatus

SpecExport == InitExport /\ [][NextExport]_vars

(***************************************************************************)
(* Properties of the export                                                *)
(***************************************************************************)
\* the step is a run of exportData that ends with the success status
ExportRunCompletes ==
  /\ exportConfig' = exportConfig
  /\ exportStatus' = ExportCompleted
  /\ exportStatus # ExportCompleted \/ downloads' # downloads

\* a document with the export metadata and the three collections by kind
IsDataDocument(content) ==
  /\ {"metadata", "data"} \subseteq DOMAIN content
  /\ {"exportDate", "version"} \subseteq DOMAIN content["metadata"]
  /\ DOMAIN content["data"] = DataTypes

\* C30: every export run that ends with 'Export completed successfully!'
\* has produced a document holding metadata (exportDate, version) and data
\* with the three collections keyed by kind, whatever the format and the
\* options.
C30_CompletedExportHasDataDocument ==
  [][ExportRunCompletes =>
       \E k \in (Len(downloads) + 1)..Len(downloads') :
         IsDataDocument(downloads'[k].content)]_vars

====
